---- MODULE Spec2Model ----
(***************************************************************************)
(* Verification model of the moxie-buildings scrape pipeline:              *)
(*   - the per-building scrape-result state machine                        *)
(*     (scheduler/runner.py scrape_one_building,                           *)
(*      scrapers/base.py save_scrape_result, scrape.py main --save)        *)
(*   - the batch orchestrator (scheduler/batch.py run_batch)               *)
(* The store is modelled as its committed tables plus the pending state of *)
(* the SQLAlchemy session that an attempt works in; commit is the only     *)
(* step that moves pending state into the committed tables.                *)
(***************************************************************************)
EXTENDS Integers, Sequences, FiniteSets, Bags, TLC

NULL == "NULL"

\* scrapers/base.py:13
CONSECUTIVE_ZERO_THRESHOLD == 5

\* An attempt starts only while the last clock reading is at most MaxClock
\* (the clock reads 1 in the initial state).
MaxClock == 6

\* scrapers/registry.py:9-22 (the keys of the registry map)
PLATFORM_SCRAPERS ==
    {"rentcafe", "ppm", "funnel", "appfolio", "bozzuto", "realpage",
     "groupfox", "sightmap", "entrata", "mri", "llm"}

\* scrapers/registry.py:25
SKIP_PLATFORMS == {"dead", "needs_classification"}

-----------------------------------------------------------------------------
(* Raw records and the normalizer (normalizer.py)                          *)

Raw(u, r) == [unit_number |-> u, rent |-> r]

R101  == Raw("101", "1500")
R101b == Raw("101", "2,250/mo")
R202  == Raw("202", "2,250/mo")
RBad  == Raw("303", "call")
RNoId == Raw(NULL, "1500")

\* The lists a strategy may return: empty, one valid record, a valid record
\* followed by an unparseable one, only invalid records, and two valid
\* records that share a unit_number.
StrategyOutputs ==
    { <<>>, <<R101>>, <<R202, RBad>>, <<RBad, RNoId>>, <<R101, R101b>> }

\* UnitInput.normalize_rent on the rent spellings above: integer cents, or
\* -1 where float() raises ValueError.
normalize_rent(v) ==
    CASE v = "1500"     -> 150000
      [] v = "2,250/mo" -> 225000
      [] OTHER          -> -1

\* UnitInput(**raw) validates: unit_number is a required str, rent must parse.
Validates(raw) == raw.unit_number /= NULL /\ normalize_rent(raw.rent) >= 0

\* normalize(raw, building_id) for a record that validates.
normalize(raw, building_id) ==
    [building_id |-> building_id,
     unit_number |-> raw.unit_number,
     rent_cents  |-> normalize_rent(raw.rent)]

\* The set of normalized records of a raw list (the records that validate).
NormalizedSet(raw_units, building_id) ==
    { normalize(raw_units[i], building_id) :
        i \in { j \in 1..Len(raw_units) : Validates(raw_units[j]) } }

Range(s) == { s[i] : i \in 1..Len(s) }

-----------------------------------------------------------------------------
VARIABLES
    units,        \* committed rows of table units
    buildings,    \* committed rows of table buildings, keyed by id
    scrape_runs,  \* committed rows of table scrape_runs
    clock,        \* datetime.now(): the last reading
    now,          \* the reading scrape_one_building took when it started
    pc,           \* position of the attempt in progress
    cur,          \* building_id of the attempt in progress
    raw_units,    \* what the strategy returned to the attempt
    result,       \* the result dict of scrape_one_building
    sess,         \* <<>> or <<s>>: the attempt's session (open transaction)
    last_good,    \* history: normalized set of each building's last committed success
    bpc,            \* position of run_batch
    sync_result,    \* outcome of run_batch's step 1
    sheet,          \* the roster: URL -> Platform cell ("" when blank)
    env,            \* what each building's site and the store do to an attempt
    building_specs, \* the list run_batch loaded in step 2
    tstate,         \* position of each submitted task
    tres,           \* what each task's future holds
    semaphores,     \* value of each platform semaphore
    results,        \* the result dicts run_batch has collected (a bag)
    pushed,         \* outcome of the two pushes to the roster
    job,            \* overlapping calls of scrape_one_building: caller -> its locals
    arg,            \* argument of the function under study
    ret             \* what that function returned, or how it ended

dbvars  == <<units, buildings, scrape_runs>>
attemptvars == <<now, pc, cur, raw_units, result, sess, last_good>>
batchvars == <<bpc, sync_result, sheet, env, building_specs, tstate, tres,
               semaphores, results, pushed>>
auxvars == <<job, arg, ret>>
vars    == <<units, buildings, scrape_runs, clock, now, pc, cur, raw_units,
             result, sess, last_good, bpc, sync_result, sheet, env,
             building_specs, tstate, tres, semaphores, results, pushed,
             job, arg, ret>>

UnitsOf(b) == { u \in units : u.building_id = b }
\* The audit rows of a building, oldest first.
RECURSIVE SortRuns(_)
SortRuns(rows) ==
    IF rows = {} THEN <<>>
    ELSE LET r == CHOOSE x \in rows : \A y \in rows : x.run_at <= y.run_at
         IN  <<r>> \o SortRuns(rows \ {r})

RunsOf(b) == SortRuns({ r \in scrape_runs : r.building_id = b })

\* last_scraped_at is a clock reading, or 0 for NULL (never scraped).
Building(platform, status, czc, at) ==
    [platform |-> platform, last_scrape_status |-> status,
     consecutive_zero_count |-> czc, last_scraped_at |-> at]

ScrapeRun(b, at, status, n) ==
    [building_id |-> b, run_at |-> at, status |-> status, unit_count |-> n]

-----------------------------------------------------------------------------
(* The session: a transaction over the committed tables.                   *)

\* SessionLocal() and the first read: the transaction sees the committed rows.
BeginSession ==
    [units |-> units, new |-> <<>>, buildings |-> buildings, new_runs |-> <<>>]

\* A delete that removes nothing: new rows are added to the old ones.
DeleteNothing(s, b) == s

\* A delete without its building filter.
DeleteEveryUnit(s, b) == [s EXCEPT !.units = {}]

\* db.query(Unit).filter(Unit.building_id == building.id).delete()
DeleteUnits(s, b) ==
    [s EXCEPT !.units = { u \in s.units : u.building_id /= b }]

\* The insert loop of scrape_one_building: normalize each raw record, add the
\* Unit, skip records that fail validation.
RECURSIVE InsertLoop(_, _, _)
InsertLoop(s, b, raws) ==
    IF raws = <<>> THEN s
    ELSE LET raw == Head(raws)
             s1  == IF Validates(raw)
                    THEN [s EXCEPT !.new = Append(@, normalize(raw, b))]
                    ELSE s
         IN  InsertLoop(s1, b, Tail(raws))

\* The threshold compared with > instead of >=.
ZeroStatusLate(count) ==
    IF count > CONSECUTIVE_ZERO_THRESHOLD THEN "needs_attention" ELSE "success"

\* Status after a success with zero units, given the incremented count
\* (runner.py:78-81, base.py:61-64).
ZeroStatus(count) ==
    IF count >= CONSECUTIVE_ZERO_THRESHOLD THEN "needs_attention" ELSE "success"

\* A status update that forgets to reset the count on a success with units.
UpdateStatusKeepsCount(bld, saved_count, t) ==
    IF saved_count > 0
    THEN [bld EXCEPT !.last_scrape_status = "success",
                     !.last_scraped_at = t]
    ELSE [bld EXCEPT !.consecutive_zero_count = @ + 1,
                     !.last_scrape_status = ZeroStatus(bld.consecutive_zero_count + 1),
                     !.last_scraped_at = t]

\* "Update building status" of scrape_one_building (runner.py:72-83).
UpdateStatus(bld, saved_count, t) ==
    IF saved_count > 0
    THEN [bld EXCEPT !.consecutive_zero_count = 0,
                     !.last_scrape_status = "success",
                     !.last_scraped_at = t]
    ELSE [bld EXCEPT !.consecutive_zero_count = @ + 1,
                     !.last_scrape_status = ZeroStatus(bld.consecutive_zero_count + 1),
                     !.last_scraped_at = t]

\* db.add(ScrapeRun(...))
AddRun(s, run) == [s EXCEPT !.new_runs = Append(@, run)]

\* The flush at commit: the pending INSERTs must respect
\* uq_unit_building_number (building_id, unit_number).
Key(u) == <<u.building_id, u.unit_number>>

\* A store without the unique constraint: every flush is accepted.
FlushUnconstrained(s) == TRUE

FlushOk(s) ==
    /\ \A i, j \in 1..Len(s.new) : i /= j => Key(s.new[i]) /= Key(s.new[j])
    /\ \A i \in 1..Len(s.new) : \A u \in s.units : Key(u) /= Key(s.new[i])

\* A commit that writes the units and the building but not the audit rows.
FlushWithoutRuns(s) ==
    [units       |-> s.units \cup Range(s.new),
     buildings   |-> s.buildings,
     scrape_runs |-> scrape_runs]

\* What db.commit() writes: the three tables after the transaction.
Flush(s) ==
    [units       |-> s.units \cup Range(s.new),
     buildings   |-> s.buildings,
     scrape_runs |-> scrape_runs \cup Range(s.new_runs)]

\* A rollback that keeps the pending state of the failed transaction.
RollbackKeepsPending(s) == s

\* db.rollback(): the pending state is discarded.
Rollback(s) == BeginSession

\* save_scrape_result raises when normalize() raises on a record (base.py:55).
SaveRaises(raws, scrape_succeeded) ==
    scrape_succeeded /\ \E i \in 1..Len(raws) : ~Validates(raws[i])

\* save_scrape_result, scrape_succeeded=True, up to its db.commit()
\* (base.py:48-66, 71-77); t is its reading of the clock.
SaveSuccess(s, b, raws, t) ==
    LET bld == s.buildings[b]
        s1  == DeleteUnits(s, b)
        s2  == IF raws /= <<>>
               THEN [s1 EXCEPT
                       !.new = [i \in 1..Len(raws) |-> normalize(raws[i], b)],
                       !.buildings[b] =
                           [bld EXCEPT !.consecutive_zero_count = 0,
                                       !.last_scrape_status = "success",
                                       !.last_scraped_at = t]]
               ELSE [s1 EXCEPT
                       !.buildings[b] =
                           [bld EXCEPT !.consecutive_zero_count = @ + 1,
                                       !.last_scrape_status =
                                           ZeroStatus(bld.consecutive_zero_count + 1),
                                       !.last_scraped_at = t]]
    IN  AddRun(s2, ScrapeRun(b, t, "success", Len(raws)))

\* A failure path that also counts the attempt as a zero-unit scrape.
SaveFailureCounting(s, b, t) ==
    AddRun([s EXCEPT !.buildings[b] =
                [@ EXCEPT !.last_scrape_status = "failed",
                          !.consecutive_zero_count = @ + 1,
                          !.last_scraped_at = t]],
           ScrapeRun(b, t, "failed", 0))

\* save_scrape_result, scrape_succeeded=False, up to its db.commit()
\* (base.py:48, 67-77).
SaveFailure(s, b, t) ==
    AddRun([s EXCEPT !.buildings[b] =
                [@ EXCEPT !.last_scrape_status = "failed",
                          !.last_scraped_at = t]],
           ScrapeRun(b, t, "failed", 0))

save_scrape_result(s, b, raws, scrape_succeeded, t) ==
    IF scrape_succeeded THEN SaveSuccess(s, b, raws, t) ELSE SaveFailure(s, b, t)

-----------------------------------------------------------------------------
(* Spec: attempts on the buildings of a store, one at a time.              *)

NoResult == [status |-> NULL, unit_count |-> 0, error |-> NULL]

\* Building 1 is fresh and schedulable; building 2 was scraped earlier (one
\* unit, one audit row) and has since been tagged dead, so no attempt runs
\* for it.
Init ==
    /\ units = { [building_id |-> 2, unit_number |-> "101", rent_cents |-> 150000] }
    /\ buildings = (1 :> Building("sightmap", "never", 0, 0)
                    @@ 2 :> Building("dead", "success", 0, 1))
    /\ scrape_runs = { ScrapeRun(2, 1, "success", 1) }
    /\ clock = 1
    /\ now = 0
    /\ pc = "idle"
    /\ cur = 0
    /\ raw_units = <<>>
    /\ result = NoResult
    /\ sess = <<>>
    /\ last_good = (1 :> {} @@ 2 :> units)
    /\ bpc = "off"
    /\ sync_result = NULL
    /\ sheet = <<>>
    /\ env = <<>>
    /\ building_specs = <<>>
    /\ tstate = <<>>
    /\ tres = <<>>
    /\ semaphores = <<>>
    /\ results = EmptyBag
    /\ pushed = <<>>
    /\ job = <<>>
    /\ arg = NULL
    /\ ret = NULL

\* The attempt is over: its session is closed and its locals are gone.
Discard ==
    /\ sess' = <<>>
    /\ pc' = "idle"
    /\ cur' = 0
    /\ now' = 0
    /\ raw_units' = <<>>
    /\ result' = NoResult

\* scrape_one_building is entered (runner.py:37-53): clock read, result
\* initialised to failed, session opened, building loaded.
Start(b) ==
    /\ UNCHANGED <<batchvars, auxvars>>
    /\ pc = "idle"
    /\ clock <= MaxClock
    /\ buildings[b].platform \in PLATFORM_SCRAPERS
    /\ clock' = clock + 1
    /\ now' = clock + 1
    /\ cur' = b
    /\ raw_units' = <<>>
    /\ result' = [status |-> "failed", unit_count |-> 0, error |-> NULL]
    /\ sess' = << BeginSession >>
    /\ pc' = "scrape"
    /\ UNCHANGED <<dbvars, last_good>>

\* mod.scrape(building) returns (runner.py:57).
StrategyReturns(raws) ==
    /\ UNCHANGED <<batchvars, auxvars>>
    /\ pc = "scrape"
    /\ raw_units' = raws
    /\ pc' = "delete"
    /\ UNCHANGED <<dbvars, clock, now, cur, result, sess, last_good>>

\* mod.scrape(building) raises (runner.py:57 -> 98).
StrategyRaises ==
    /\ UNCHANGED <<batchvars, auxvars>>
    /\ pc = "scrape"
    /\ result' = [result EXCEPT !.error = "strategy"]
    /\ pc' = "except"
    /\ UNCHANGED <<dbvars, clock, now, cur, raw_units, sess, last_good>>

\* runner.py:60: the DELETE is executed inside the open transaction.
Delete ==
    /\ UNCHANGED <<batchvars, auxvars>>
    /\ pc = "delete"
    /\ sess' = << DeleteUnits(sess[1], cur) >>
    /\ pc' = "stage"
    /\ UNCHANGED <<dbvars, clock, now, cur, raw_units, result, last_good>>

\* runner.py:62-91: pending inserts, status update and audit row.
StageSuccess(s, b, raws, t) ==
    LET s1 == InsertLoop(s, b, raws)
        saved_count == Len(s1.new)
        s2 == [s1 EXCEPT !.buildings[b] = UpdateStatus(@, saved_count, t)]
    IN  AddRun(s2, ScrapeRun(b, t, "success", saved_count))

Stage ==
    /\ UNCHANGED <<batchvars, auxvars>>
    /\ pc = "stage"
    /\ sess' = << StageSuccess(sess[1], cur, raw_units, now) >>
    /\ pc' = "commit"
    /\ UNCHANGED <<dbvars, clock, now, cur, raw_units, result, last_good>>

\* A commit after which the result carries the building's health state
\* instead of "success".
CommitOkReportsHealth ==
    /\ UNCHANGED <<batchvars, auxvars>>
    /\ pc = "commit"
    /\ FlushOk(sess[1])
    /\ units' = Flush(sess[1]).units
    /\ buildings' = Flush(sess[1]).buildings
    /\ scrape_runs' = Flush(sess[1]).scrape_runs
    /\ result' = [result EXCEPT
                    !.status = Flush(sess[1]).buildings[cur].last_scrape_status,
                    !.unit_count = Len(sess[1].new)]
    /\ last_good' = [last_good EXCEPT ![cur] = NormalizedSet(raw_units, cur)]
    /\ pc' = "sleep"
    /\ UNCHANGED <<clock, now, cur, raw_units, sess>>

\* runner.py:92-96: db.commit() succeeds.
CommitOk ==
    /\ UNCHANGED <<batchvars, auxvars>>
    /\ pc = "commit"
    /\ FlushOk(sess[1])
    /\ units' = Flush(sess[1]).units
    /\ buildings' = Flush(sess[1]).buildings
    /\ scrape_runs' = Flush(sess[1]).scrape_runs
    /\ result' = [result EXCEPT !.status = "success",
                                !.unit_count = Len(sess[1].new)]
    /\ last_good' = [last_good EXCEPT ![cur] = NormalizedSet(raw_units, cur)]
    /\ pc' = "sleep"
    /\ UNCHANGED <<clock, now, cur, raw_units, sess>>

\* runner.py:92 -> 98: the flush violates uq_unit_building_number.
CommitIntegrityError ==
    /\ UNCHANGED <<batchvars, auxvars>>
    /\ pc = "commit"
    /\ ~FlushOk(sess[1])
    /\ result' = [result EXCEPT !.error = "IntegrityError"]
    /\ pc' = "except"
    /\ UNCHANGED <<dbvars, clock, now, cur, raw_units, sess, last_good>>

\* runner.py:92 -> 98: the store rejects the commit (locked, I/O error).
CommitStoreError ==
    /\ UNCHANGED <<batchvars, auxvars>>
    /\ pc = "commit"
    /\ result' = [result EXCEPT !.error = "OperationalError"]
    /\ pc' = "except"
    /\ UNCHANGED <<dbvars, clock, now, cur, raw_units, sess, last_good>>

\* runner.py:99-105: db.rollback(), building reloaded.
Except ==
    /\ UNCHANGED <<batchvars, auxvars>>
    /\ pc = "except"
    /\ sess' = << Rollback(sess[1]) >>
    /\ pc' = "fail_stage"
    /\ UNCHANGED <<dbvars, clock, now, cur, raw_units, result, last_good>>

\* runner.py:107-113: save_scrape_result(db, building, [], scrape_succeeded=False)
\* up to its commit; it reads the clock itself (base.py:48).
FailStage ==
    /\ UNCHANGED <<batchvars, auxvars>>
    /\ pc = "fail_stage"
    /\ clock' = clock + 1
    /\ sess' = << save_scrape_result(sess[1], cur, <<>>, FALSE, clock + 1) >>
    /\ pc' = "fail_commit"
    /\ UNCHANGED <<dbvars, now, cur, raw_units, result, last_good>>

\* base.py:78 inside runner.py:107: the failure is committed.
FailCommitOk ==
    /\ UNCHANGED <<batchvars, auxvars>>
    /\ pc = "fail_commit"
    /\ FlushOk(sess[1])
    /\ units' = Flush(sess[1]).units
    /\ buildings' = Flush(sess[1]).buildings
    /\ scrape_runs' = Flush(sess[1]).scrape_runs
    /\ pc' = "sleep"
    /\ UNCHANGED <<clock, now, cur, raw_units, result, sess, last_good>>

\* runner.py:114-115: recording the failure raised; it is logged and dropped.
FailCommitFails ==
    /\ UNCHANGED <<batchvars, auxvars>>
    /\ pc = "fail_commit"
    /\ pc' = "sleep"
    /\ UNCHANGED <<dbvars, clock, now, cur, raw_units, result, sess, last_good>>

\* runner.py:118-125: db.close(), politeness delay, return result.
Return ==
    /\ UNCHANGED <<batchvars, auxvars>>
    /\ pc = "sleep"
    /\ Discard
    /\ UNCHANGED <<dbvars, clock, last_good>>

\* The process dies between two writes: the open transaction is lost.
Crash ==
    /\ UNCHANGED <<batchvars, auxvars>>
    /\ pc \notin {"idle"}
    /\ Discard
    /\ UNCHANGED <<dbvars, clock, last_good>>

-----------------------------------------------------------------------------
(* The operator tools' path: scrape.py main --save                         *)

\* scrape.py:109-150: building looked up, strategy dispatched.
CliStart(b) ==
    /\ UNCHANGED <<batchvars, auxvars>>
    /\ pc = "idle"
    /\ clock <= MaxClock
    /\ buildings[b].platform \in PLATFORM_SCRAPERS
    /\ cur' = b
    /\ raw_units' = <<>>
    /\ result' = NoResult
    /\ sess' = << BeginSession >>
    /\ pc' = "cli_scrape"
    /\ UNCHANGED <<dbvars, clock, now, last_good>>

CliStrategyReturns(raws) ==
    /\ UNCHANGED <<batchvars, auxvars>>
    /\ pc = "cli_scrape"
    /\ raw_units' = raws
    /\ pc' = "cli_save"
    /\ UNCHANGED <<dbvars, clock, now, cur, result, sess, last_good>>

\* scrape.py:154 -> base.py:48-77
CliSave ==
    /\ UNCHANGED <<batchvars, auxvars>>
    /\ pc = "cli_save"
    /\ ~SaveRaises(raw_units, TRUE)
    /\ clock' = clock + 1
    /\ sess' = << save_scrape_result(sess[1], cur, raw_units, TRUE, clock + 1) >>
    /\ pc' = "cli_commit"
    /\ UNCHANGED <<dbvars, now, cur, raw_units, result, last_good>>

\* base.py:78 succeeds; scrape.py:155-158 follow and change nothing.
CliCommitOk ==
    /\ UNCHANGED <<batchvars, auxvars>>
    /\ pc = "cli_commit"
    /\ FlushOk(sess[1])
    /\ units' = Flush(sess[1]).units
    /\ buildings' = Flush(sess[1]).buildings
    /\ scrape_runs' = Flush(sess[1]).scrape_runs
    /\ last_good' = [last_good EXCEPT ![cur] = NormalizedSet(raw_units, cur)]
    /\ pc' = "cli_done"
    /\ UNCHANGED <<clock, now, cur, raw_units, result, sess>>

\* scrape.py:155-170: the second commit finds nothing pending, the table is
\* printed, the session is closed.
CliReturn ==
    /\ UNCHANGED <<batchvars, auxvars>>
    /\ pc = "cli_done"
    /\ Discard
    /\ UNCHANGED <<dbvars, clock, last_good>>

\* scrape.py:162-170: the strategy, normalize() or the commit raised; the
\* error is printed, the session closed, the process exits.
CliError ==
    /\ UNCHANGED <<batchvars, auxvars>>
    /\ \/ pc = "cli_scrape"
       \/ pc = "cli_save" /\ SaveRaises(raw_units, TRUE)
       \/ pc = "cli_commit"
    /\ Discard
    /\ UNCHANGED <<dbvars, clock, last_good>>

Next ==
    \/ \E b \in DOMAIN buildings : Start(b)
    \/ \E raws \in StrategyOutputs : StrategyReturns(raws)
    \/ StrategyRaises
    \/ Delete
    \/ Stage
    \/ CommitOk
    \/ CommitIntegrityError
    \/ CommitStoreError
    \/ Except
    \/ FailStage
    \/ FailCommitOk
    \/ FailCommitFails
    \/ Return
    \/ Crash
    \/ \E b \in DOMAIN buildings : CliStart(b)
    \/ \E raws \in StrategyOutputs : CliStrategyReturns(raws)
    \/ CliSave
    \/ CliCommitOk
    \/ CliReturn
    \/ CliError

Spec == Init /\ [][Next]_vars

-----------------------------------------------------------------------------
(* Properties of the scrape-result state machine, checked under Spec.      *)

\* The step commits a success transition: scrape_one_building sets
\* result["status"] = "success" (runner.py:94), or the operator tool's
\* save_scrape_result(scrape_succeeded=True) has committed.
SuccessCommitted ==
    \/ result.status /= "success" /\ result'.status = "success"
    \/ pc = "cli_commit" /\ pc' = "cli_done"

\* Number of records of a raw list that normalize.
ValidCount(raws) == Cardinality({ i \in 1..Len(raws) : Validates(raws[i]) })

C3_ZeroCount ==
    [][ \A b \in DOMAIN buildings :
          LET before == buildings[b].consecutive_zero_count
              after  == buildings'[b].consecutive_zero_count
          IN  IF SuccessCommitted /\ b = cur
              THEN IF NormalizedSet(raw_units, b) = {}
                   THEN after = before + 1
                   ELSE after = 0
              ELSE after = before ]_vars

\* C3 witness: two zero-unit successes separated by a failure have
\* accumulated to a count of 2.
C3_Witness ==
    LET r == RunsOf(1) IN
    /\ Len(r) = 3
    /\ r[1].status = "success" /\ r[1].unit_count = 0
    /\ r[2].status = "failed"
    /\ r[3].status = "success" /\ r[3].unit_count = 0
    /\ buildings[1].consecutive_zero_count = 2

\* C4: a zero-unit success sets last_scrape_status to needs_attention exactly
\* when the resulting count has reached 5 (success while it is below 5), and
\* a success with units sets it to success whatever it was before.
C4_Threshold ==
    [][ SuccessCommitted =>
          LET count  == buildings[cur].consecutive_zero_count + 1
              status == buildings'[cur].last_scrape_status
          IN  IF NormalizedSet(raw_units, cur) = {}
              THEN /\ buildings'[cur].consecutive_zero_count = count
                   /\ (count >= 5) => status = "needs_attention"
                   /\ (count < 5)  => status = "success"
              ELSE status = "success" ]_vars

\* C4 witness: five zero-unit successes on the fresh building (the fifth
\* gave needs_attention), then a success with units, and the status is
\* success again.
C4_Witness ==
    LET r == RunsOf(1) IN
    /\ Len(r) = 6
    /\ \A i \in 1..5 : r[i].status = "success" /\ r[i].unit_count = 0
    /\ r[6].status = "success" /\ r[6].unit_count > 0
    /\ buildings[1].last_scrape_status = "success"
    /\ buildings[1].consecutive_zero_count = 0

\* C5: after a successful scrape transition the building's stored Units are
\* exactly the normalized records of that scrape, one Unit per normalized
\* record (none when there are none), and the Units of every other building
\* are untouched.
C5_SnapshotReplace ==
    [][ SuccessCommitted =>
          /\ { u \in units' : u.building_id = cur } = NormalizedSet(raw_units, cur)
          /\ Cardinality({ u \in units' : u.building_id = cur }) = ValidCount(raw_units)
          /\ \A b \in DOMAIN buildings \ {cur} :
               { u \in units' : u.building_id = b } = UnitsOf(b) ]_vars

\* C5 witness: a building that had a stored unit was scraped successfully
\* with zero units and now has none.
C5_Witness ==
    LET r == RunsOf(1) IN
    /\ Len(r) = 2
    /\ r[1].status = "success" /\ r[1].unit_count = 1
    /\ r[2].status = "success" /\ r[2].unit_count = 0
    /\ UnitsOf(1) = {}
    /\ UnitsOf(2) /= {}

\* The audit row that belongs to a building's current health state.
AuditConsistent(b) ==
    LET r == RunsOf(b) IN
    IF buildings[b].last_scraped_at = 0
    THEN r = <<>> /\ buildings[b].last_scrape_status = "never"
    ELSE /\ r /= <<>>
         /\ r[Len(r)].run_at = buildings[b].last_scraped_at
         /\ (r[Len(r)].status = "failed") =
                (buildings[b].last_scrape_status = "failed")
         /\ (r[Len(r)].status = "success") =
                (buildings[b].last_scrape_status \in {"success", "needs_attention"})

\* A step that changes the committed tables is one whole transition of one
\* building: one ScrapeRun row appended, with the Building update of the
\* same attempt, and nothing of any other building.
WholeTransition ==
    \E b \in DOMAIN buildings : \E row \in scrape_runs' \ scrape_runs :
        /\ scrape_runs' = scrape_runs \cup {row}
        /\ row.building_id = b
        /\ row.run_at = buildings'[b].last_scraped_at
        /\ buildings'[b].last_scraped_at /= buildings[b].last_scraped_at
        /\ (row.status = "failed") = (buildings'[b].last_scrape_status = "failed")
        /\ row.status = "success" =>
               row.unit_count = Cardinality({ u \in units' : u.building_id = b })
        /\ row.status = "failed" =>
               { u \in units' : u.building_id = b } = UnitsOf(b)
        /\ \A o \in DOMAIN buildings \ {b} :
               /\ buildings'[o] = buildings[o]
               /\ { u \in units' : u.building_id = o } = UnitsOf(o)

\* C6: every scrape transition appends exactly one ScrapeRun row and
\* commits it together with the Building update and the Unit replacement:
\* the committed tables change only by whole transitions (also across
\* errors and crashes between the writes), and in every committed state
\* each building's health state has its audit row.
C6_AtomicTransition ==
    /\ [](\A b \in DOMAIN buildings : AuditConsistent(b))
    /\ [][ dbvars' /= dbvars => WholeTransition ]_vars

\* C6 witness: the attempt is between its writes: the DELETE has run and the
\* new rows and the audit row are pending, while the committed tables still
\* hold the old units and no row of this attempt.
C6_Witness ==
    /\ pc = "commit"
    /\ sess[1].units /= units
    /\ sess[1].new /= <<>>
    /\ sess[1].new_runs /= <<>>
    /\ buildings[cur].last_scraped_at /= now

-----------------------------------------------------------------------------
(* run_batch (scheduler/batch.py): roster refresh, building-list load, a    *)
(* thread pool whose tasks take their platform's semaphore, the two pushes  *)
(* to the roster and the prune of old audit rows.                           *)

\* scheduler/batch.py:16-28
PLATFORM_CONCURRENCY ==
    ( "rentcafe" :> 1 @@ "groupfox" :> 1 @@ "llm" :> 1 @@ "entrata" :> 1
      @@ "mri" :> 1 @@ "funnel" :> 1 @@ "bozzuto" :> 1 @@ "ppm" :> 1
      @@ "sightmap" :> 2 @@ "appfolio" :> 2 @@ "realpage" :> 1 )

\* scheduler/batch.py:36
MAX_WORKERS == 8

\* scheduler/batch.py:39, the default of _prune_old_runs(days)
PruneDays == 30

\* Number of classified buildings in the store when a batch run starts.
NumBuildings == 9

\* Buildings are identified with their URL (the roster's key).  Beyond the
\* classified ones the store holds one building tagged dead, and the roster
\* has two rows the store has not seen.
DeadBuilding == NumBuildings + 1
NewListed    == NumBuildings + 2
NewUnknown   == NumBuildings + 3

PlatformOf(i) == IF i <= 3 THEN "sightmap" ELSE "rentcafe"

\* Text is a sequence of symbols, each a run of characters; a pattern is a
\* substring of a text when its symbols occur in it contiguously.
Pattern(platform, pattern) == [platform |-> platform, pattern |-> pattern]

\* platform_detect.py:22-36, in the order of the list.
PLATFORM_PATTERNS ==
    << Pattern("rentcafe", <<"rentcafe", ".com">>),
       Pattern("rentcafe", <<"securecafe", ".com">>),
       Pattern("ppm",      <<"ppmapartments", ".com">>),
       Pattern("entrata",  <<"entrata", ".com">>),
       Pattern("entrata",  <<"my", "entrata", ".com">>),
       Pattern("mri",      <<"residentportal", ".com">>),
       Pattern("funnel",   <<"nestiolistings", ".com">>),
       Pattern("funnel",   <<"funnelleasing", ".com">>),
       Pattern("realpage", <<"realpage", ".com">>),
       Pattern("realpage", <<"g5searchmarketing", ".com">>),
       Pattern("bozzuto",  <<"bozzuto", ".com">>),
       Pattern("groupfox", <<"groupfox", ".com">>),
       Pattern("appfolio", <<"appfolio", ".com">>) >>

\* str.lower() on the symbols that have upper-case letters.
LowerSymbol(c) ==
    CASE c = "RENTCAFE" -> "rentcafe"
      [] c = "HTTPS://" -> "https://"
      [] c = "Floor"    -> "floor"
      [] c = "Pricing"  -> "pricing"
      [] c = "About"    -> "about"
      [] OTHER          -> c

lower(s) == [i \in DOMAIN s |-> LowerSymbol(s[i])]

\* Python's `pattern in text`.
Contains(pattern, text) ==
    \E i \in 0..(Len(text) - Len(pattern)) :
        SubSeq(text, i + 1, i + Len(pattern)) = pattern

\* Index of the first "/" of a text, or Len + 1 when it has none.
FirstSlash(s) ==
    IF \E i \in DOMAIN s : s[i] = "/"
    THEN CHOOSE i \in DOMAIN s : s[i] = "/" /\ \A j \in 1..(i - 1) : s[j] /= "/"
    ELSE Len(s) + 1

\* urllib.parse.urlparse: the network location is what follows "scheme://"
\* up to the next "/"; a text without "scheme://" has no network location
\* and is a path as a whole.
urlparse(url) ==
    IF url /= <<>> /\ Head(url) = "https://"
    THEN [netloc |-> SubSeq(Tail(url), 1, FirstSlash(Tail(url)) - 1),
          path   |-> SubSeq(Tail(url), FirstSlash(Tail(url)), Len(Tail(url)))]
    ELSE [netloc |-> <<>>, path |-> url]

\* detect_platform(url) (platform_detect.py:44-67).
detect_platform(url) ==
    IF url = <<>> THEN NULL
    ELSE LET parsed   == urlparse(lower(url))
             hostname == IF parsed.netloc /= <<>> THEN parsed.netloc
                         ELSE parsed.path
             hits == { i \in DOMAIN PLATFORM_PATTERNS :
                         Contains(PLATFORM_PATTERNS[i].pattern, hostname) }
         IN  IF hits = {} THEN NULL
             ELSE PLATFORM_PATTERNS[CHOOSE i \in hits : \A j \in hits : i <= j].platform

\* The Website cell of a roster row: the first new row is on a recognised
\* host, every other row is on a domain of the building's own (its text is
\* not spelled out).
RosterUrl(u) ==
    IF u = NewListed
    THEN <<"https://", "river-north.", "appfolio", ".com", "/", "listings">>
    ELSE <<"https://", "www.", "own-domain", ".com">>

\* What happens to the attempt on a building during this run:
\*   units      the strategy returns a valid and an invalid record
\*   zero       the strategy returns an empty list
\*   raises     the strategy raises
\*   store_down the strategy raises and the store rejects the failure write
\*   escapes    an exception leaves scrape_one_building (SessionLocal() at
\*              runner.py:48 is outside the try)
EnvOf(i) ==
    CASE i % 5 = 1 -> "units"
      [] i % 5 = 2 -> "zero"
      [] i % 5 = 3 -> "raises"
      [] i % 5 = 4 -> "store_down"
      [] OTHER     -> "escapes"

StrategyOf(e) == IF e = "units" THEN <<R202, RBad>> ELSE <<>>

CommittedDb == [units |-> units, buildings |-> buildings, scrape_runs |-> scrape_runs]

\* sheets_sync(db) (sync/sheets.py:121-169): upsert the roster rows by URL,
\* the sheet's Platform cell wins when non-blank, classify buildings whose
\* platform is null, delete buildings absent from the roster (their units
\* and audit rows cascade, db/models.py:28-33), commit.
sheets_sync(rows) ==
    LET upserted ==
            [u \in DOMAIN buildings \cup DOMAIN rows |->
                IF u \in DOMAIN rows
                THEN IF u \in DOMAIN buildings
                     THEN IF rows[u] /= ""
                          THEN [buildings[u] EXCEPT !.platform = rows[u]]
                          ELSE buildings[u]
                     ELSE Building(IF rows[u] /= "" THEN rows[u] ELSE NULL,
                                   "never", 0, 0)
                ELSE buildings[u]]
        classified ==
            [u \in DOMAIN upserted |->
                IF upserted[u].platform = NULL
                THEN [upserted[u] EXCEPT !.platform =
                        IF detect_platform(RosterUrl(u)) /= NULL
                        THEN detect_platform(RosterUrl(u))
                        ELSE "needs_classification"]
                ELSE upserted[u]]
    IN  [units       |-> { x \in units : x.building_id \in DOMAIN rows },
         buildings   |-> [u \in DOMAIN rows |-> classified[u]],
         scrape_runs |-> { r \in scrape_runs : r.building_id \in DOMAIN rows }]

\* The ids of a set in ascending order (the order the query returns rows).
SortIds(S) ==
    [i \in 1..Cardinality(S) |->
        CHOOSE x \in S : Cardinality({ y \in S : y <= x }) = i]

\* The buildings step 2 of run_batch keeps (batch.py:103-114).
Scrapeable ==
    { b \in DOMAIN buildings :
        /\ buildings[b].platform \notin SKIP_PLATFORMS
        /\ buildings[b].platform /= NULL
        /\ buildings[b].platform \in PLATFORM_SCRAPERS }

\* Step 2 of run_batch (batch.py:103-115).
LoadBuildingSpecs ==
    [i \in 1..Cardinality(Scrapeable) |->
        [building_id |-> SortIds(Scrapeable)[i],
         platform    |-> buildings[SortIds(Scrapeable)[i]].platform]]

\* The strategy's exception leaves scrape_one_building uncaught.
PropagateError(b, t, store_ok) ==
    [db |-> CommittedDb, status |-> NULL, unit_count |-> 0, raised |-> TRUE]

\* The except block of scrape_one_building (runner.py:98-115): rollback,
\* then record the failure through save_scrape_result in a try of its own
\* whose exception is only logged.
ExceptBlock(b, t, store_ok) ==
    [db |-> IF store_ok
            THEN Flush(save_scrape_result(Rollback(BeginSession), b, <<>>, FALSE, t))
            ELSE CommittedDb,
     status |-> "failed", unit_count |-> 0, raised |-> FALSE]

\* scrape_one_building(building_id, ...) as one transaction on the store
\* (runner.py:37-125): what it commits and what it returns or raises.
scrape_one_building(b, e, t) ==
    IF e = "escapes" THEN
        [db |-> CommittedDb, status |-> NULL, unit_count |-> 0, raised |-> TRUE]
    ELSE IF e = "raises" THEN ExceptBlock(b, t, TRUE)
    ELSE IF e = "store_down" THEN ExceptBlock(b, t, FALSE)
    ELSE LET s == StageSuccess(DeleteUnits(BeginSession, b), b, StrategyOf(e), t)
         IN  IF FlushOk(s)
             THEN [db |-> Flush(s), status |-> "success",
                   unit_count |-> Len(s.new), raised |-> FALSE]
             ELSE ExceptBlock(b, t, TRUE)

\* _semaphores.get(platform, _default_sem) (batch.py:58)
SemOf(platform) ==
    IF platform \in DOMAIN PLATFORM_CONCURRENCY THEN platform ELSE "_default_sem"

\* A semaphore that is never exhausted.
AcquireAlways(sems, p) == TRUE

\* threading.Semaphore.acquire can proceed.
CanAcquire(sems, p) == sems[p] > 0

\* A semaphore released by hand after the call: an exception skips it.
ReleaseUnlessRaised(sems, p, raised) ==
    IF raised THEN sems ELSE [sems EXCEPT ![p] = @ + 1]

\* Leaving "with sem:" (batch.py:59), by return or by exception.
Release(sems, p, raised) == [sems EXCEPT ![p] = @ + 1]

\* Tasks that occupy a worker thread of the pool.
InWorker == { i \in DOMAIN tstate : tstate[i] \in {"acquire", "scrape", "sleep"} }

\* Tasks inside "with sem:".
HoldsSem(p) ==
    { i \in DOMAIN tstate :
        tstate[i] \in {"scrape", "sleep"} /\ SemOf(building_specs[i].platform) = p }

NoTaskResult == [status |-> NULL, unit_count |-> 0, raised |-> FALSE]

\* The entry the as_completed loop appends for a finished future
\* (batch.py:148-163): its result, or an "error" entry when the future
\* holds an exception.
ResultEntry(spec, r) ==
    IF r.raised
    THEN [building_id |-> spec.building_id, platform |-> "unknown",
          status |-> "error", unit_count |-> 0]
    ELSE [building_id |-> spec.building_id, platform |-> spec.platform,
          status |-> r.status, unit_count |-> r.unit_count]

\* The store a batch run starts from: every third classified building was
\* scraped the day before and has one unit; the dead building has a unit and
\* an audit row older than the retention period.
InitBatch ==
    /\ buildings = [i \in 1..DeadBuilding |->
                      IF i = DeadBuilding THEN Building("dead", "success", 0, 5)
                      ELSE IF i % 3 = 0 THEN Building(PlatformOf(i), "success", 0, 39)
                      ELSE Building(PlatformOf(i), "never", 0, 0)]
    /\ units = { normalize(R101, i) : i \in { j \in 1..DeadBuilding :
                                                j % 3 = 0 \/ j = DeadBuilding } }
    /\ scrape_runs = { ScrapeRun(i, 39, "success", 1) :
                          i \in { j \in 1..NumBuildings : j % 3 = 0 } }
                     \cup { ScrapeRun(DeadBuilding, 5, "success", 1) }
    /\ clock = 40
    /\ now = 0
    /\ pc = "off"
    /\ cur = 0
    /\ raw_units = <<>>
    /\ result = NoResult
    /\ sess = <<>>
    /\ last_good = <<>>
    /\ bpc = "start"
    /\ sync_result = NULL
    /\ sheet = [u \in (1..(NumBuildings - 1)) \cup {DeadBuilding, NewListed, NewUnknown} |->
                  IF u = DeadBuilding THEN "dead"
                  ELSE IF u = 1 THEN "sightmap" ELSE ""]
    /\ env = [i \in 1..NewUnknown |-> EnvOf(i)]
    /\ building_specs = <<>>
    /\ tstate = <<>>
    /\ tres = <<>>
    /\ semaphores = [p \in DOMAIN PLATFORM_CONCURRENCY \cup {"_default_sem"} |->
                        IF p \in DOMAIN PLATFORM_CONCURRENCY
                        THEN PLATFORM_CONCURRENCY[p] ELSE 1]
    /\ results = EmptyBag
    /\ pushed = [status |-> NULL, availability |-> NULL]
    /\ job = <<>>
    /\ arg = NULL
    /\ ret = NULL

\* Step 1 (batch.py:82-96): sheets_sync returns.
SyncOk ==
    /\ bpc = "start"
    /\ units' = sheets_sync(sheet).units
    /\ buildings' = sheets_sync(sheet).buildings
    /\ scrape_runs' = sheets_sync(sheet).scrape_runs
    /\ sync_result' = "ok"
    /\ bpc' = "load"
    /\ UNCHANGED <<clock, attemptvars, auxvars, sheet, env, building_specs, tstate, tres,
                   semaphores, results, pushed>>

\* Step 1 without the except clause: the exception of sheets_sync leaves
\* run_batch.
SyncFailureAborts ==
    /\ bpc = "start"
    /\ sync_result' = "failed"
    /\ bpc' = "aborted"
    /\ UNCHANGED <<dbvars, clock, attemptvars, auxvars, sheet, env, building_specs, tstate,
                   tres, semaphores, results, pushed>>

\* Step 1: sheets_sync raises; the exception is logged (batch.py:93-94).
SyncFails ==
    /\ bpc = "start"
    /\ sync_result' = "failed"
    /\ bpc' = "load"
    /\ UNCHANGED <<dbvars, clock, attemptvars, auxvars, sheet, env, building_specs, tstate,
                   tres, semaphores, results, pushed>>

\* Step 1 with skip_sheets_sync=True (batch.py:97-98).
SyncSkipped ==
    /\ bpc = "start"
    /\ sync_result' = "skipped"
    /\ bpc' = "load"
    /\ UNCHANGED <<dbvars, clock, attemptvars, auxvars, sheet, env, building_specs, tstate,
                   tres, semaphores, results, pushed>>

\* Step 2 (batch.py:101-117).
LoadOk ==
    /\ bpc = "load"
    /\ building_specs' = LoadBuildingSpecs
    /\ bpc' = "loaded"
    /\ UNCHANGED <<dbvars, clock, attemptvars, auxvars, sync_result, sheet, env, tstate,
                   tres, semaphores, results, pushed>>

\* Step 2: the query raises; try/finally has no except, run_batch raises.
LoadFails ==
    /\ bpc = "load"
    /\ bpc' = "aborted"
    /\ UNCHANGED <<dbvars, clock, attemptvars, auxvars, sync_result, sheet, env,
                   building_specs, tstate, tres, semaphores, results, pushed>>

\* dry_run=True (batch.py:121-135).
DryRun ==
    /\ bpc = "loaded"
    /\ results' = SetToBag({ [building_id |-> building_specs[i].building_id,
                              platform |-> building_specs[i].platform,
                              status |-> "dry_run", unit_count |-> 0] :
                             i \in DOMAIN building_specs })
    /\ bpc' = "done"
    /\ UNCHANGED <<dbvars, clock, attemptvars, auxvars, sync_result, sheet, env,
                   building_specs, tstate, tres, semaphores, pushed>>

\* Step 3: every building is submitted to the pool (batch.py:143-147).
Dispatch ==
    /\ bpc = "loaded"
    /\ tstate' = [i \in DOMAIN building_specs |-> "queued"]
    /\ tres' = [i \in DOMAIN building_specs |-> NoTaskResult]
    /\ bpc' = "collect"
    /\ UNCHANGED <<dbvars, clock, attemptvars, auxvars, sync_result, sheet, env,
                   building_specs, semaphores, results, pushed>>

\* A free worker thread takes the oldest queued task.
TaskDequeue(i) ==
    /\ bpc = "collect"
    /\ tstate[i] = "queued"
    /\ \A j \in DOMAIN tstate : j < i => tstate[j] /= "queued"
    /\ Cardinality(InWorker) < MAX_WORKERS
    /\ tstate' = [tstate EXCEPT ![i] = "acquire"]
    /\ UNCHANGED <<dbvars, clock, attemptvars, auxvars, bpc, sync_result, sheet, env,
                   building_specs, tres, semaphores, results, pushed>>

\* "with sem:" is entered (batch.py:58-59).
TaskAcquire(i) ==
    /\ bpc = "collect"
    /\ tstate[i] = "acquire"
    /\ CanAcquire(semaphores, SemOf(building_specs[i].platform))
    /\ semaphores' = [semaphores EXCEPT ![SemOf(building_specs[i].platform)] = @ - 1]
    /\ tstate' = [tstate EXCEPT ![i] = "scrape"]
    /\ UNCHANGED <<dbvars, clock, attemptvars, auxvars, bpc, sync_result, sheet, env,
                   building_specs, tres, results, pushed>>

\* scrape_one_building runs up to its politeness sleep (runner.py:37-119)
\* and the task goes to sleep holding the semaphore, or an exception leaves
\* it: "with sem:" is left, the future holds the exception and the
\* as_completed loop appends its entry.
TaskScrape(i) ==
    /\ bpc = "collect"
    /\ tstate[i] = "scrape"
    /\ \E r \in { scrape_one_building(building_specs[i].building_id,
                                      env[building_specs[i].building_id], clock) } :
        /\ units' = r.db.units
        /\ buildings' = r.db.buildings
        /\ scrape_runs' = r.db.scrape_runs
        /\ tres' = [tres EXCEPT ![i] = [status |-> r.status,
                                        unit_count |-> r.unit_count,
                                        raised |-> r.raised]]
        /\ IF r.raised
           THEN /\ tstate' = [tstate EXCEPT ![i] = "done"]
                /\ semaphores' = Release(semaphores,
                                         SemOf(building_specs[i].platform), TRUE)
                /\ results' = results (+) SetToBag({ResultEntry(building_specs[i], r)})
           ELSE /\ tstate' = [tstate EXCEPT ![i] = "sleep"]
                /\ UNCHANGED <<semaphores, results>>
    /\ UNCHANGED <<clock, attemptvars, auxvars, bpc, sync_result, sheet, env,
                   building_specs, pushed>>

\* The politeness sleep is over (runner.py:121-125): scrape_one_building
\* returns, "with sem:" is left, the worker thread is free, and the
\* as_completed loop appends the future's result.
TaskReturn(i) ==
    /\ bpc = "collect"
    /\ tstate[i] = "sleep"
    /\ tstate' = [tstate EXCEPT ![i] = "done"]
    /\ semaphores' = Release(semaphores, SemOf(building_specs[i].platform), FALSE)
    /\ results' = results (+) SetToBag({ResultEntry(building_specs[i], tres[i])})
    /\ UNCHANGED <<dbvars, clock, attemptvars, auxvars, bpc, sync_result, sheet, env,
                   building_specs, tres, pushed>>

\* Step 4 without the wait for the pool: the summary is pushed while tasks
\* are still running.
PushStatusEarly(ok) ==
    /\ bpc = "collect"
    /\ pushed' = [pushed EXCEPT !.status =
                    IF results = EmptyBag THEN "none"
                    ELSE IF ok THEN "ok" ELSE "failed"]
    /\ bpc' = "push_availability"
    /\ UNCHANGED <<dbvars, clock, attemptvars, auxvars, sync_result, sheet, env,
                   building_specs, tstate, tres, semaphores, results>>

\* Step 4 (batch.py:179-180): push_batch_status returns whether or not the
\* roster accepted the rows (sheets_status.py:27-29, 70-89).
PushStatus(ok) ==
    /\ bpc = "collect"
    /\ \A i \in DOMAIN tstate : tstate[i] = "done"
    /\ pushed' = [pushed EXCEPT !.status =
                    IF results = EmptyBag THEN "none"
                    ELSE IF ok THEN "ok" ELSE "failed"]
    /\ bpc' = "push_availability"
    /\ UNCHANGED <<dbvars, clock, attemptvars, auxvars, sync_result, sheet, env,
                   building_specs, tstate, tres, semaphores, results>>

\* Step 5 (batch.py:183-192): an exception of push_availability is logged.
PushAvailability(ok) ==
    /\ bpc = "push_availability"
    /\ pushed' = [pushed EXCEPT !.availability = IF ok THEN "ok" ELSE "failed"]
    /\ bpc' = "prune"
    /\ UNCHANGED <<dbvars, clock, attemptvars, auxvars, sync_result, sheet, env,
                   building_specs, tstate, tres, semaphores, results>>

\* A variant of step 6 that deletes without a cutoff.
PruneWithoutCutoff ==
    /\ bpc = "prune"
    /\ scrape_runs' = {}
    /\ bpc' = "done"
    /\ UNCHANGED <<units, buildings, clock, attemptvars, auxvars, sync_result, sheet, env,
                   building_specs, tstate, tres, semaphores, results, pushed>>

\* Step 6 (batch.py:39-48, 195): rows older than the cutoff are deleted.
Prune ==
    /\ bpc = "prune"
    /\ scrape_runs' = { r \in scrape_runs : ~(r.run_at < clock - PruneDays) }
    /\ bpc' = "done"
    /\ UNCHANGED <<units, buildings, clock, attemptvars, auxvars, sync_result, sheet, env,
                   building_specs, tstate, tres, semaphores, results, pushed>>

\* Step 6: the delete or its commit raises; logged (batch.py:49-51).
PruneFails ==
    /\ bpc = "prune"
    /\ bpc' = "done"
    /\ UNCHANGED <<dbvars, clock, attemptvars, auxvars, sync_result, sheet, env,
                   building_specs, tstate, tres, semaphores, results, pushed>>

NextBatch ==
    \/ SyncOk
    \/ SyncFails
    \/ SyncSkipped
    \/ LoadOk
    \/ LoadFails
    \/ DryRun
    \/ Dispatch
    \/ \E i \in DOMAIN tstate : TaskDequeue(i)
    \/ \E i \in DOMAIN tstate : TaskAcquire(i)
    \/ \E i \in DOMAIN tstate : TaskScrape(i)
    \/ \E i \in DOMAIN tstate : TaskReturn(i)
    \/ \E ok \in BOOLEAN : PushStatus(ok)
    \/ \E ok \in BOOLEAN : PushAvailability(ok)
    \/ Prune
    \/ PruneFails

SpecBatch == InitBatch /\ [][NextBatch]_vars

\* The threads of the pool and the main thread are scheduled by the
\* operating system: a step that stays possible is eventually taken.
SpecBatchFair == InitBatch /\ [][NextBatch]_vars /\ WF_vars(NextBatch)

-----------------------------------------------------------------------------
(* Properties of a batch run, checked under SpecBatch and SpecBatchFair.    *)

\* runner.py:20
BROWSER_PLATFORMS ==
    {"rentcafe", "groupfox", "llm", "entrata", "mri", "funnel", "bozzuto", "ppm"}

BuildingOf(i) == building_specs[i].building_id

\* The strategy of task i's building raises during this run.
StrategyRaisesFor(i) == env[BuildingOf(i)] \in {"raises", "store_down"}

\* scrape_one_building has finished its work for task i.
Attempted(i) == tstate[i] \in {"sleep", "done"}

\* The pool has been left: run_batch is past its as_completed loop.
PoolLeft == bpc \in {"push_availability", "prune", "done"} /\ tstate /= <<>>

\* The result entries collected for a building.
EntriesOf(b) == { e \in BagToSet(results) : e.building_id = b }

ExactlyOneEntry(b) ==
    /\ Cardinality(EntriesOf(b)) = 1
    /\ \A e \in EntriesOf(b) : CopiesIn(e, results) = 1

\* A step in which task i's scrape_one_building handles its strategy's error.
HandlesStrategyError(i) ==
    /\ i \in DOMAIN tstate
    /\ tstate[i] = "scrape"
    /\ tstate'[i] /= "scrape"
    /\ StrategyRaisesFor(i)

\* C7: in a batch run an error raised by a building's extraction strategy
\* is caught inside that building's task: the task returns a "failed"
\* result instead of raising, and (the store accepting the write) the
\* building is marked failed with one failed audit row of this run; the
\* step touches no unit and no row of any other building, changes no other
\* task and does not end run_batch; once the pool is left every task has
\* run, and run_batch holds exactly one result entry per dispatched
\* building and no other entry.
C7_StrategyErrorIsolated ==
    /\ [](\A i \in DOMAIN tstate :
            StrategyRaisesFor(i) /\ Attempted(i) =>
                /\ ~tres[i].raised
                /\ tres[i].status = "failed"
                /\ env[BuildingOf(i)] = "raises" =>
                      /\ buildings[BuildingOf(i)].last_scrape_status = "failed"
                      /\ ScrapeRun(BuildingOf(i), clock, "failed", 0) \in scrape_runs)
    /\ [](PoolLeft =>
            /\ \A i \in DOMAIN tstate :
                  /\ tstate[i] = "done"
                  /\ tres[i].raised \/ tres[i].status \in {"success", "failed"}
                  /\ ExactlyOneEntry(BuildingOf(i))
            /\ BagCardinality(results) = Len(building_specs))
    /\ [][\A i \in 1..Len(building_specs) :
            HandlesStrategyError(i) =>
                /\ units' = units
                /\ \A c \in DOMAIN buildings \ {BuildingOf(i)} :
                      buildings'[c] = buildings[c]
                /\ \A r \in (scrape_runs' \ scrape_runs) \cup (scrape_runs \ scrape_runs') :
                      r.building_id = BuildingOf(i)
                /\ \A j \in DOMAIN tstate \ {i} : tstate'[j] = tstate[j]
                /\ bpc' = bpc]_vars

\* C7 witness: a run is over in which a building that had a unit saw its
\* strategy raise:
\* it is marked failed, its unit is still stored, and other buildings of
\* the same run were scraped successfully.
C7_Witness ==
    /\ bpc = "done"
    /\ \E i, j \in DOMAIN tstate :
          /\ env[BuildingOf(i)] = "raises"
          /\ buildings[BuildingOf(i)].last_scrape_status = "failed"
          /\ UnitsOf(BuildingOf(i)) /= {}
          /\ j > i
          /\ tres[j].status = "success"
          /\ tres[j].unit_count > 0

\* No scrape transition of this run is committed.
NothingCommitted == \A r \in scrape_runs : r.run_at < clock

Executing(p) ==
    { i \in DOMAIN tstate : tstate[i] = "scrape" /\ building_specs[i].platform = p }

\* C9: at every moment of a batch run at most MAX_WORKERS = 8 tasks occupy
\* a worker thread, so at most 8 execute a strategy; for each platform at
\* most PLATFORM_CONCURRENCY[p] tasks execute a strategy (1 for the
\* browser-driven platforms, 2 for sightmap and appfolio); every dispatched
\* platform has a semaphore of its own, whose value is its capacity minus
\* the tasks inside "with sem:", and a task executing its strategy is one
\* of them and occupies a worker thread.
C9_ConcurrencyCaps ==
    /\ Cardinality(InWorker) <= 8
    /\ Cardinality({ i \in DOMAIN tstate : tstate[i] = "scrape" }) <= 8
    /\ \A p \in BROWSER_PLATFORMS : PLATFORM_CONCURRENCY[p] = 1
    /\ PLATFORM_CONCURRENCY["sightmap"] = 2
    /\ PLATFORM_CONCURRENCY["appfolio"] = 2
    /\ \A p \in DOMAIN PLATFORM_CONCURRENCY :
          /\ Cardinality(Executing(p)) <= PLATFORM_CONCURRENCY[p]
          /\ Executing(p) \subseteq HoldsSem(p) \cap InWorker
          /\ semaphores[p] = PLATFORM_CONCURRENCY[p] - Cardinality(HoldsSem(p))
          /\ semaphores[p] >= 0
    /\ \A i \in DOMAIN building_specs :
          building_specs[i].platform \in DOMAIN PLATFORM_CONCURRENCY

\* C9 witness: all eight worker threads are occupied, two sightmap tasks
\* execute their
\* strategy while a third waits for the semaphore, and a rentcafe task
\* executes while others wait.
C9_Witness ==
    /\ Cardinality(InWorker) = 8
    /\ Cardinality(Executing("sightmap")) = 2
    /\ \E i \in DOMAIN tstate :
          tstate[i] = "acquire" /\ building_specs[i].platform = "sightmap"
    /\ Cardinality(Executing("rentcafe")) = 1
    /\ \E i \in DOMAIN tstate :
          tstate[i] = "acquire" /\ building_specs[i].platform = "rentcafe"

\* Some task of the pool can take a step.
SomeTaskCanStep ==
    ENABLED (\E i \in DOMAIN tstate :
                TaskDequeue(i) \/ TaskAcquire(i) \/ TaskScrape(i) \/ TaskReturn(i))

\* C10: a task that has ended holds neither a semaphore nor a worker
\* thread, whether scrape_one_building returned or raised: each semaphore's
\* value is its capacity minus the tasks inside "with sem:", and it is back
\* at its capacity when the pool is left; while a task has not ended some
\* task can take a step (no deadlock between worker threads and
\* semaphores); the pool is left only when every dispatched task has ended,
\* and every run terminates, so every task that was queued or waiting for
\* its semaphore got it.
C10_SlotsReleased ==
    /\ [](\A p \in DOMAIN semaphores :
            /\ semaphores[p] + Cardinality(HoldsSem(p)) =
                  (IF p \in DOMAIN PLATFORM_CONCURRENCY THEN PLATFORM_CONCURRENCY[p] ELSE 1)
            /\ PoolLeft => HoldsSem(p) = {} /\ InWorker = {})
    /\ [](bpc = "collect" /\ (\E i \in DOMAIN tstate : tstate[i] /= "done")
            => SomeTaskCanStep)
    /\ [](PoolLeft => \A i \in DOMAIN tstate : tstate[i] = "done")
    /\ [](bpc = "done" => tstate = <<>> \/ PoolLeft)
    /\ <>(bpc \in {"done", "aborted"})

\* C10 witness: a rentcafe task ended with an exception that escaped
\* scrape_one_building, and a later rentcafe task now executes its strategy
\* inside "with sem:" while every worker thread is occupied.
C10_Witness ==
    /\ Cardinality(InWorker) = MAX_WORKERS
    /\ \E i, j \in DOMAIN tstate :
          /\ building_specs[i].platform = "rentcafe"
          /\ building_specs[j].platform = "rentcafe"
          /\ tstate[j] = "done"
          /\ tres[j].raised
          /\ tstate[i] = "scrape"

\* The oldest queued task: the one a free worker thread would take.
OldestQueued(i) ==
    /\ i \in DOMAIN tstate
    /\ tstate[i] = "queued"
    /\ \A j \in DOMAIN tstate : j < i => tstate[j] /= "queued"

\* Task j occupies a worker thread while only waiting for, or sleeping
\* inside, the semaphore of a platform other than p.
IdlesOnOtherPlatform(j, p) ==
    /\ j \in InWorker
    /\ SemOf(building_specs[j].platform) /= p
    /\ \/ tstate[j] = "sleep"
       \/ tstate[j] = "acquire" /\ semaphores[SemOf(building_specs[j].platform)] = 0

\* C11: a task that has finished its scrape is still inside "with sem:"
\* during its politeness sleep, and that holding blocks nothing beyond its
\* platform: whenever the oldest queued task's own semaphore is free and
\* some worker thread is occupied by a task that only waits for, or sleeps
\* on, another platform's semaphore, that queued task can start.
C11_DelayBlocksOnlyOwnPlatform ==
    /\ \A i \in DOMAIN tstate :
          tstate[i] = "sleep" => i \in HoldsSem(SemOf(building_specs[i].platform))
    /\ \A i \in DOMAIN tstate :
          ( /\ OldestQueued(i)
            /\ semaphores[SemOf(building_specs[i].platform)] > 0
            /\ \E j \in DOMAIN tstate :
                  IdlesOnOtherPlatform(j, SemOf(building_specs[i].platform)) )
          => ENABLED TaskDequeue(i)

-----------------------------------------------------------------------------
(* SpecOverlap: two callers of scrape_one_building on the same building at *)
(* the same time: the nightly batch's task and the admin re-scrape job,    *)
(* which runs the attempt in a thread of the API process                   *)
(* (api/routers/admin.py:144-183). Each caller has its own session.        *)

Callers == {"batch", "admin"}
OverlapBuilding == 1
\* Clock readings the overlapping callers may take.
MaxOverlapClock == 4

IdleJob == [pc |-> "idle", building |-> NULL, now |-> 0, raw_units |-> <<>>]

\* The UPDATE a session's flush emits for a loaded row: it sets the
\* attributes whose value differs from the value the session loaded, and
\* leaves the other columns of the stored row as they are.
CommitRow(stored, loaded, staged) ==
    [f \in DOMAIN stored |->
        IF staged[f] /= loaded[f] THEN staged[f] ELSE stored[f]]

\* The caller's session at runner.py:60: the units as the store has them
\* now, the building as the session loaded it at runner.py:50.
WriteSession(a) ==
    [BeginSession EXCEPT !.buildings[OverlapBuilding] = job[a].building]

\* runner.py:60-91 in the caller's session.
StagedWrite(a) ==
    StageSuccess(DeleteUnits(WriteSession(a), OverlapBuilding),
                 OverlapBuilding, job[a].raw_units, job[a].now)

InitOverlap ==
    /\ units = {}
    /\ buildings = (OverlapBuilding :> Building("sightmap", "never", 0, 0))
    /\ scrape_runs = {}
    /\ clock = 1
    /\ now = 0
    /\ pc = "off"
    /\ cur = 0
    /\ raw_units = <<>>
    /\ result = NoResult
    /\ sess = <<>>
    /\ last_good = <<>>
    /\ bpc = "off"
    /\ sync_result = NULL
    /\ sheet = <<>>
    /\ env = <<>>
    /\ building_specs = <<>>
    /\ tstate = <<>>
    /\ tres = <<>>
    /\ semaphores = <<>>
    /\ results = EmptyBag
    /\ pushed = <<>>
    /\ job = [a \in Callers |-> IdleJob]
    /\ arg = NULL
    /\ ret = NULL

overlapframe == <<now, pc, cur, raw_units, result, sess, last_good, batchvars,
                  arg, ret>>

\* runner.py:37-53: the clock is read, the session opened and the building
\* row loaded; the SELECT does not open a write transaction.
OvStart(a) ==
    /\ job[a].pc = "idle"
    /\ clock <= MaxOverlapClock
    /\ clock' = clock + 1
    /\ job' = [job EXCEPT ![a] = [pc |-> "scrape",
                                  building |-> buildings[OverlapBuilding],
                                  now |-> clock + 1,
                                  raw_units |-> <<>>]]
    /\ UNCHANGED <<dbvars, overlapframe>>

\* runner.py:57 returns.
OvStrategyReturns(a, raws) ==
    /\ job[a].pc = "scrape"
    /\ job' = [job EXCEPT ![a].pc = "write", ![a].raw_units = raws]
    /\ UNCHANGED <<dbvars, clock, overlapframe>>

\* runner.py:57 raises.
OvStrategyRaises(a) ==
    /\ job[a].pc = "scrape"
    /\ job' = [job EXCEPT ![a].pc = "except"]
    /\ UNCHANGED <<dbvars, clock, overlapframe>>

\* runner.py:60-92: the write transaction, from the DELETE to the commit. The
\* store admits one write transaction at a time (session.py:13-20), so it
\* is one step for the other caller.
OvWriteOk(a) ==
    /\ job[a].pc = "write"
    /\ FlushOk(StagedWrite(a))
    /\ units' = Flush(StagedWrite(a)).units
    /\ scrape_runs' = Flush(StagedWrite(a)).scrape_runs
    /\ buildings' = [buildings EXCEPT ![OverlapBuilding] =
                        CommitRow(@, job[a].building,
                                  StagedWrite(a).buildings[OverlapBuilding])]
    /\ job' = [job EXCEPT ![a].pc = "done"]
    /\ UNCHANGED <<clock, overlapframe>>

\* runner.py:60-92 -> 98: the flush violates the unique constraint, or the
\* store stays locked beyond the busy timeout.
OvWriteFails(a) ==
    /\ job[a].pc = "write"
    /\ job' = [job EXCEPT ![a].pc = "except"]
    /\ UNCHANGED <<dbvars, clock, overlapframe>>

\* runner.py:99-113: rollback, the building reloaded, the failure committed.
OvExceptOk(a) ==
    /\ job[a].pc = "except"
    /\ clock' = clock + 1
    /\ units' = Flush(SaveFailure(BeginSession, OverlapBuilding, clock + 1)).units
    /\ buildings' =
           Flush(SaveFailure(BeginSession, OverlapBuilding, clock + 1)).buildings
    /\ scrape_runs' =
           Flush(SaveFailure(BeginSession, OverlapBuilding, clock + 1)).scrape_runs
    /\ job' = [job EXCEPT ![a].pc = "done"]
    /\ UNCHANGED overlapframe

\* runner.py:114-115: recording the failure raised.
OvExceptFails(a) ==
    /\ job[a].pc = "except"
    /\ job' = [job EXCEPT ![a].pc = "done"]
    /\ UNCHANGED <<dbvars, clock, overlapframe>>

\* runner.py:118-125
OvReturn(a) ==
    /\ job[a].pc = "done"
    /\ job' = [job EXCEPT ![a] = IdleJob]
    /\ UNCHANGED <<dbvars, clock, overlapframe>>

NextOverlap ==
    \/ \E a \in Callers : OvStart(a)
    \/ \E a \in Callers : \E raws \in StrategyOutputs : OvStrategyReturns(a, raws)
    \/ \E a \in Callers : OvStrategyRaises(a)
    \/ \E a \in Callers : OvWriteOk(a)
    \/ \E a \in Callers : OvWriteFails(a)
    \/ \E a \in Callers : OvExceptOk(a)
    \/ \E a \in Callers : OvExceptFails(a)
    \/ \E a \in Callers : OvReturn(a)

SpecOverlap == InitOverlap /\ [][NextOverlap]_vars

\* C12: two attempts on the same building that overlap leave the store as
\* if they had run one after the other in some order. Whatever the order, a
\* building whose committed attempts all found zero units (or failed) has
\* consecutive_zero_count equal to the number of its committed zero-unit
\* successes.
C12_OverlapIsSerial ==
    \A b \in DOMAIN buildings :
        LET rows == { r \in scrape_runs : r.building_id = b }
        IN  (\A r \in rows : r.unit_count = 0)
            => buildings[b].consecutive_zero_count =
                   Cardinality({ r \in rows : r.status = "success" })

-----------------------------------------------------------------------------
(* The order of the steps of run_batch, checked under SpecBatch.           *)

AllTasksDone ==
    /\ building_specs /= <<>>
    /\ DOMAIN tstate = DOMAIN building_specs
    /\ \A i \in DOMAIN tstate : tstate[i] = "done" /\ tres[i] /= NoTaskResult

\* One step of run_batch respects the order of its six steps.
StepInOrder ==
    /\ sync_result' /= sync_result
          => bpc = "start" /\ building_specs = <<>> /\ tstate = <<>>
    /\ building_specs' /= building_specs
          => sync_result /= NULL /\ tstate = <<>> /\ pushed.status = NULL
    /\ tstate' /= tstate
          => /\ sync_result /= NULL
             /\ building_specs /= <<>>
             /\ pushed = [status |-> NULL, availability |-> NULL]
    /\ pushed'.status /= pushed.status
          => AllTasksDone /\ pushed.availability = NULL /\ bpc' /= "done"
    /\ pushed'.availability /= pushed.availability
          => AllTasksDone /\ pushed.status /= NULL /\ bpc' /= "done"
    /\ (bpc = "prune" /\ bpc' = "done")
          => /\ AllTasksDone
             /\ pushed.status /= NULL
             /\ pushed.availability /= NULL
    /\ scrape_runs' /= scrape_runs /\ pushed.status /= NULL => bpc = "prune"
    /\ bpc /= "done"

\* C13: a batch run refreshes the roster, loads the building list and
\* dispatches the tasks in that order; the run summary and then the
\* availability snapshot are pushed only once every dispatched task has
\* completed; pruning comes after both pushes and is the last step; a push
\* that failed leaves the run on its way to the prune step.
C13_BatchStepOrder ==
    /\ [][StepInOrder]_vars
    /\ [](pushed.status /= NULL
            => bpc \in {"push_availability", "prune", "done"})
    /\ [](pushed.availability /= NULL => bpc \in {"prune", "done"})
    /\ [](bpc = "prune" => ENABLED Prune)

C13_Witness ==
    /\ bpc = "done"
    /\ sync_result = "ok"
    /\ AllTasksDone
    /\ pushed = [status |-> "failed", availability |-> "failed"]
    /\ DeadBuilding \in DOMAIN buildings
    /\ \A r \in scrape_runs : r.building_id /= DeadBuilding

-----------------------------------------------------------------------------
(* Records that fail normalization, on both persist paths (Spec).          *)

\* Some record of the list makes normalize() raise.
HasInvalid(raws) == \E i \in 1..Len(raws) : ~Validates(raws[i])

\* C14: a record of a successful scrape that fails normalization is the
\* only thing dropped: the attempt goes on to stage its success transition
\* (on the batch path and on the operator tools' path), and the transition
\* it commits stores exactly the valid records and is recorded as a success.
C14_OnlyInvalidRecordDropped ==
    /\ []( (pc \in {"stage", "cli_save"} /\ HasInvalid(raw_units))
              => (ENABLED Stage \/ ENABLED CliSave) )
    /\ [][ (SuccessCommitted /\ HasInvalid(raw_units))
              => /\ { u \in units' : u.building_id = cur }
                        = NormalizedSet(raw_units, cur)
                 /\ buildings'[cur].last_scrape_status
                        \in {"success", "needs_attention"}
                 /\ \E r \in scrape_runs' \ scrape_runs :
                        r.building_id = cur /\ r.status = "success" ]_vars

-----------------------------------------------------------------------------
(* The two persist paths, side by side, from one committed state (Spec).   *)

\* What scrape_one_building leaves in the store when the strategy returned
\* raws (runner.py:59-115): the staged success if its flush is accepted,
\* the failure transition if not.
BatchPath(b, raws, t) ==
    LET s == StageSuccess(DeleteUnits(BeginSession, b), b, raws, t)
    IN  IF FlushOk(s) THEN Flush(s)
        ELSE Flush(SaveFailure(BeginSession, b, t))

\* What the operator tools leave in the store for the same list
\* (scrape.py:148-170 around base.py:50-78): the staged success if
\* normalize() and the flush raise nothing, otherwise nothing.
PersistPath(b, raws, t) ==
    IF SaveRaises(raws, TRUE) THEN CommittedDb
    ELSE LET s == save_scrape_result(BeginSession, b, raws, TRUE, t)
         IN  IF FlushOk(s) THEN Flush(s) ELSE CommittedDb

\* What the claim compares: the building's units, counter and status, and
\* status and unit_count of the audit rows written.
Observed(db, b) ==
    [units  |-> { u \in db.units : u.building_id = b },
     count  |-> db.buildings[b].consecutive_zero_count,
     status |-> db.buildings[b].last_scrape_status,
     runs   |-> { <<r.status, r.unit_count>> :
                    r \in { x \in db.scrape_runs \ scrape_runs : x.building_id = b } }]

\* C15: from the same committed state and for the same list of raw records,
\* the operator tools' persist path and the batch path leave the same
\* units, the same consecutive_zero_count and last_scrape_status, and an
\* audit row with the same status and unit_count.
C15_PathsAgree ==
    \A b \in DOMAIN buildings : \A raws \in StrategyOutputs :
        buildings[b].platform \in PLATFORM_SCRAPERS
            => Observed(BatchPath(b, raws, clock + 1), b)
                   = Observed(PersistPath(b, raws, clock + 1), b)

-----------------------------------------------------------------------------
(* The status scrape_one_building reports (Spec).                          *)

\* The attempt about to return has committed a transition: an audit row of
\* its building carries one of its clock readings.
PersistedByAttempt ==
    \E r \in scrape_runs : r.building_id = cur /\ r.run_at >= now

\* C16 as stated: the status an attempt reports is the last_scrape_status
\* it persisted, one of success, needs_attention or failed.
C16_StatusIsHealthState ==
    (pc = "sleep" /\ PersistedByAttempt)
        => /\ result.status = buildings[cur].last_scrape_status
           /\ result.status \in {"success", "needs_attention", "failed"}

\* C16: the status an attempt reports is "success" or "failed"; it is
\* "success" exactly when the attempt committed its success transition, the
\* persisted last_scrape_status then being success or needs_attention, and
\* "failed" when the persisted last_scrape_status is failed or when nothing
\* was persisted.
C16_StatusIsOutcome ==
    pc = "sleep"
        => /\ result.status \in {"success", "failed"}
           /\ PersistedByAttempt =>
                 /\ result.status = "success"
                       <=> buildings[cur].last_scrape_status
                               \in {"success", "needs_attention"}
                 /\ result.status = "failed"
                       <=> buildings[cur].last_scrape_status = "failed"
           /\ ~PersistedByAttempt => result.status = "failed"

C16_Witness ==
    /\ pc = "sleep"
    /\ PersistedByAttempt
    /\ result.status = "success"
    /\ buildings[cur].last_scrape_status = "needs_attention"

-----------------------------------------------------------------------------
(* SpecDetect: detect_platform applied to one URL.                         *)

\* Nothing else is running: the store is empty, no attempt, no batch.
Quiescent ==
    /\ units = {}
    /\ buildings = <<>>
    /\ scrape_runs = {}
    /\ clock = 0
    /\ now = 0
    /\ pc = "off"
    /\ cur = 0
    /\ raw_units = <<>>
    /\ result = NoResult
    /\ sess = <<>>
    /\ last_good = <<>>
    /\ bpc = "off"
    /\ sync_result = NULL
    /\ sheet = <<>>
    /\ env = <<>>
    /\ building_specs = <<>>
    /\ tstate = <<>>
    /\ tres = <<>>
    /\ semaphores = <<>>
    /\ results = EmptyBag
    /\ pushed = <<>>
    /\ job = <<>>

\* Longest URL tried, in symbols.
MaxUrlLen == 4

UrlSymbols ==
    {"https://", "/", "example", ".com", "rentcafe", "RENTCAFE", "my", "entrata"}

RECURSIVE Texts(_, _)
Texts(symbols, n) ==
    IF n = 0 THEN {<<>>}
    ELSE Texts(symbols, n - 1)
         \cup { Append(s, c) : s \in { x \in Texts(symbols, n - 1) : Len(x) = n - 1 },
                               c \in symbols }

Urls == Texts(UrlSymbols, MaxUrlLen)

InitDetect ==
    /\ Quiescent
    /\ arg \in Urls
    /\ ret = <<>>

\* detect_platform(arg) is called and returns.
CallDetectPlatform ==
    /\ arg \in Urls
    /\ ret = <<>>
    /\ ret' = << detect_platform(arg) >>
    /\ UNCHANGED <<dbvars, clock, attemptvars, batchvars, job, arg>>

NextDetect == CallDetectPlatform

SpecDetect == InitDetect /\ [][NextDetect]_vars

\* The hostname of a URL: what stands between the scheme, if any, and the
\* first "/".
HostnameOf(url) ==
    LET rest == IF url /= <<>> /\ Head(url) = "https://" THEN Tail(url) ELSE url
    IN  SubSeq(rest, 1, FirstSlash(rest) - 1)

\* Indices of the patterns that occur in a text.
PatternsIn(text) ==
    { i \in DOMAIN PLATFORM_PATTERNS : Contains(PLATFORM_PATTERNS[i].pattern, text) }

\* C18: detect_platform returns the platform of the first pattern, in list
\* order, that occurs in the URL's lower-cased hostname, and None when none
\* does; a pattern that occurs only in the path produces no match.
C18_FirstHostnameMatch ==
    ret /= <<>> =>
        LET hits == PatternsIn(lower(HostnameOf(arg)))
        IN  /\ hits /= {} =>
                 ret[1] = PLATFORM_PATTERNS[CHOOSE i \in hits :
                                               \A j \in hits : i <= j].platform
            /\ hits = {} => ret[1] = NULL

-----------------------------------------------------------------------------
(* SpecClassify: the two classification stages at work on a store: the     *)
(* URL-pattern stage inside sheets_sync and the content-signature stage of *)
(* scripts/detect_platforms.py.                                            *)

\* Platforms the content stage can name (detect_platforms.py:115-127); one
\* of them stands for the list.
DetectablePlatforms == {"entrata"}

\* Outcome of inspecting one page: a platform, no signature, or an error.
DetectionOutcomes == DetectablePlatforms \cup {"unknown", "error"}

\* Buildings the content stage inspects with every page outcome tried.
ClassifyIds == 1..3

\* The roster rows the store was last synchronised with, then edited: row 2
\* may carry an operator's platform, and a row may be new.
ClassifyRosters ==
    { [u \in ClassifyIds \cup extra |-> IF u = 2 THEN cell ELSE ""] :
        cell \in {"", "sightmap"}, extra \in SUBSET {NewListed} }

InitClassify ==
    /\ units = {}
    /\ buildings = (1 :> Building("rentcafe", "success", 0, 1)
                    @@ 2 :> Building("needs_classification", "never", 0, 0)
                    @@ 3 :> Building(NULL, "never", 0, 0))
    /\ scrape_runs = { ScrapeRun(1, 1, "success", 0) }
    /\ clock = 1
    /\ now = 0
    /\ pc = "off"
    /\ cur = 0
    /\ raw_units = <<>>
    /\ result = NoResult
    /\ sess = <<>>
    /\ last_good = <<>>
    /\ bpc = "off"
    /\ sync_result = NULL
    /\ sheet \in ClassifyRosters
    /\ env = <<>>
    /\ building_specs = <<>>
    /\ tstate = <<>>
    /\ tres = <<>>
    /\ semaphores = <<>>
    /\ results = EmptyBag
    /\ pushed = <<>>
    /\ job = <<>>
    /\ arg = NULL
    /\ ret = NULL

classifyframe == <<clock, attemptvars, bpc, sync_result, sheet, env,
                   building_specs, tstate, tres, semaphores, results, pushed, job>>

\* sheets-sync is run (sync/sheets.py:77-171).
RunSheetsSync ==
    /\ units' = sheets_sync(sheet).units
    /\ buildings' = sheets_sync(sheet).buildings
    /\ scrape_runs' = sheets_sync(sheet).scrape_runs
    /\ arg' = [tool |-> "sheets_sync", all |-> FALSE, save |-> TRUE]
    /\ ret' = NULL
    /\ UNCHANGED classifyframe

\* The buildings detect_platforms.py loads (lines 234-241).
DetectScope(all) ==
    { u \in DOMAIN buildings : all \/ buildings[u].platform = "needs_classification" }

\* detect_platforms.py main: the pages of the buildings in scope are
\* inspected (243-283); with --save each detected platform is written
\* (295-310).
RunDetectPlatforms(all, save, outcome) ==
    /\ DetectScope(all) /= {}
    /\ arg' = [tool |-> "detect_platforms", all |-> all, save |-> save]
    /\ ret' = Cardinality({ u \in DetectScope(all) :
                               outcome[u] \in DetectablePlatforms })
    /\ buildings' =
          [u \in DOMAIN buildings |->
              IF save /\ u \in DetectScope(all) /\ outcome[u] \in DetectablePlatforms
              THEN [buildings[u] EXCEPT !.platform = outcome[u]]
              ELSE buildings[u]]
    /\ UNCHANGED <<units, scrape_runs, classifyframe>>

NextClassify ==
    \/ RunSheetsSync
    \/ \E all \in BOOLEAN, save \in BOOLEAN :
          \E outcome \in [DetectScope(all) -> DetectionOutcomes] :
              RunDetectPlatforms(all, save, outcome)

SpecClassify == InitClassify /\ [][NextClassify]_vars

\* A platform value that classifies: neither null nor the sentinel.
Classified(p) == p /= NULL /\ p /= "needs_classification"

\* C17: both classification stages fill blanks only. A step of either
\* stage leaves the platform of a building that has a classifying platform
\* as it is (the roster's own Platform cell aside); the content stage
\* assigns only to buildings that are null or needs_classification, the
\* URL stage only to null ones; and a null building without a URL-pattern
\* match gets needs_classification.
C17_FillsBlanksOnly ==
    [][ \A u \in DOMAIN buildings \cap DOMAIN buildings' :
          /\ (arg'.tool = "detect_platforms" /\ Classified(buildings[u].platform))
                => buildings'[u].platform = buildings[u].platform
          /\ (arg'.tool = "sheets_sync" /\ sheet[u] = ""
                /\ buildings[u].platform /= NULL)
                => buildings'[u].platform = buildings[u].platform
          /\ (arg'.tool = "sheets_sync" /\ sheet[u] = ""
                /\ buildings[u].platform = NULL)
                => buildings'[u].platform =
                       IF detect_platform(RosterUrl(u)) /= NULL
                       THEN detect_platform(RosterUrl(u))
                       ELSE "needs_classification" ]_vars

-----------------------------------------------------------------------------
(* SpecSync: sheets_sync on rosters with blank and repeated Website cells, *)
(* the store keyed by building id. (In the batch model above every roster  *)
(* row has its own URL and the URL stands for the id.)                     *)

\* A Website cell that is blank after strip().
NoUrl == 0

\* Most rows of a roster, and the highest id the store hands out.
MaxRows == 2
MaxBuildingId == 3

Row(url, platform) == [url |-> url, platform |-> platform]

\* _parse_rows (sheets.py:53-71) on the Website and Platform cells.
RosterRows ==
    { Row(url, platform) : url \in {NoUrl, 1, NewListed}, platform \in {"", "sightmap"} }

RECURSIVE RowLists(_)
RowLists(n) ==
    IF n = 0 THEN {<<>>}
    ELSE RowLists(n - 1)
         \cup { Append(s, r) : s \in { x \in RowLists(n - 1) : Len(x) = n - 1 },
                               r \in RosterRows }

Rosters == RowLists(MaxRows)

StoredBuilding(url, platform, status, czc, at) ==
    [url |-> url, platform |-> platform, last_scrape_status |-> status,
     consecutive_zero_count |-> czc, last_scraped_at |-> at]

\* sheets.py:116-122
sheet_urls(rows) == { rows[i].url : i \in { j \in DOMAIN rows : rows[j].url /= NoUrl } }

\* Step 7 (sheets.py:126-149): the rows in order. The lookup by URL reads
\* the table, where the rows added earlier in the loop are not yet
\* (autoflush is off, session.py:23).
RECURSIVE UpsertLoop(_, _)
UpsertLoop(s, rows) ==
    IF rows = <<>> THEN s
    ELSE LET b == Head(rows)
             existing == { i \in DOMAIN s.buildings : s.buildings[i].url = b.url }
             s1 == IF b.url = NoUrl
                   THEN [s EXCEPT !.skipped = @ + 1]
                   ELSE IF existing /= {}
                   THEN LET i == CHOOSE i \in existing : TRUE
                        IN  [s EXCEPT !.buildings[i].platform =
                                         IF b.platform /= "" THEN b.platform ELSE @,
                                      !.updated = @ + 1]
                   ELSE [s EXCEPT !.new = Append(@,
                                     StoredBuilding(b.url,
                                         IF b.platform /= "" THEN b.platform ELSE NULL,
                                         "never", 0, 0)),
                                  !.added = @ + 1]
         IN  UpsertLoop(s1, Tail(rows))

\* db.flush() (sheets.py:156) violates the unique constraint on
\* buildings.url (models.py:16).
FlushRaises(s) ==
    \E i, j \in DOMAIN s.new : i /= j /\ s.new[i].url = s.new[j].url

MaxId(S) == IF S = {} THEN 0 ELSE CHOOSE i \in S : \A j \in S : j <= i

\* db.flush(): the added rows get the next ids.
FlushAdded(s) ==
    [s EXCEPT !.buildings =
        [i \in DOMAIN s.buildings
               \cup (MaxId(DOMAIN s.buildings) + 1)..(MaxId(DOMAIN s.buildings) + Len(s.new))
           |-> IF i \in DOMAIN s.buildings THEN s.buildings[i]
               ELSE s.new[i - MaxId(DOMAIN s.buildings)]],
             !.new = <<>>]

\* Step 7b (sheets.py:157-159).
ClassifyNull(s) ==
    [s EXCEPT !.buildings =
        [i \in DOMAIN s.buildings |->
            IF s.buildings[i].platform = NULL
            THEN [s.buildings[i] EXCEPT !.platform =
                    IF detect_platform(RosterUrl(s.buildings[i].url)) /= NULL
                    THEN detect_platform(RosterUrl(s.buildings[i].url))
                    ELSE "needs_classification"]
            ELSE s.buildings[i]]]

\* A delete of the building rows alone, without the cascade.
DeleteMissingNoCascade(s, urls) ==
    LET gone == { i \in DOMAIN s.buildings : s.buildings[i].url \notin urls }
    IN  [s EXCEPT !.buildings = [i \in DOMAIN s.buildings \ gone |-> s.buildings[i]],
                  !.deleted = Cardinality(gone)]

\* Step 8 (sheets.py:162-165): buildings whose URL is not in the roster are
\* deleted; their units and audit rows go with them (models.py:28-33).
DeleteMissing(s, urls) ==
    LET gone == { i \in DOMAIN s.buildings : s.buildings[i].url \notin urls }
    IN  [s EXCEPT !.buildings = [i \in DOMAIN s.buildings \ gone |-> s.buildings[i]],
                  !.units = { u \in s.units : u.building_id \notin gone },
                  !.scrape_runs = { r \in s.scrape_runs : r.building_id \notin gone },
                  !.deleted = Cardinality(gone)]

SyncSession ==
    [buildings |-> buildings, units |-> units, scrape_runs |-> scrape_runs,
     new |-> <<>>, added |-> 0, updated |-> 0, deleted |-> 0, skipped |-> 0]

\* sheets_sync raises: no row has a URL (sheets.py:109-114), or the flush
\* is rejected.
SyncRaises(rows) ==
    \/ sheet_urls(rows) = {}
    \/ FlushRaises(UpsertLoop(SyncSession, rows))

\* sheets_sync from step 5 to the commit, on the parsed rows.
sheets_sync_rows(rows) ==
    DeleteMissing(ClassifyNull(FlushAdded(UpsertLoop(SyncSession, rows))),
                  sheet_urls(rows))

InitSync ==
    /\ units = { [building_id |-> 1, unit_number |-> "101", rent_cents |-> 150000],
                 [building_id |-> 2, unit_number |-> "101", rent_cents |-> 150000] }
    /\ buildings = (1 :> StoredBuilding(1, "rentcafe", "success", 0, 1)
                    @@ 2 :> StoredBuilding(2, "sightmap", "failed", 0, 2))
    /\ scrape_runs = { ScrapeRun(1, 1, "success", 1), ScrapeRun(2, 1, "success", 1),
                       ScrapeRun(2, 2, "failed", 0) }
    /\ clock = 2
    /\ now = 0
    /\ pc = "off"
    /\ cur = 0
    /\ raw_units = <<>>
    /\ result = NoResult
    /\ sess = <<>>
    /\ last_good = <<>>
    /\ bpc = "off"
    /\ sync_result = NULL
    /\ sheet \in Rosters
    /\ env = <<>>
    /\ building_specs = <<>>
    /\ tstate = <<>>
    /\ tres = <<>>
    /\ semaphores = <<>>
    /\ results = EmptyBag
    /\ pushed = <<>>
    /\ job = <<>>
    /\ arg = NULL
    /\ ret = NULL

syncframe == <<clock, attemptvars, bpc, env, building_specs, tstate, tres,
               semaphores, results, pushed, job>>

\* sheets_sync(db) returns its counts; arg remembers the roster it read.
SheetsSyncReturns ==
    /\ ~SyncRaises(sheet)
    /\ MaxId(DOMAIN buildings) + Len(UpsertLoop(SyncSession, sheet).new) <= MaxBuildingId
    /\ \E s \in { sheets_sync_rows(sheet) } :
          /\ buildings' = s.buildings
          /\ units' = s.units
          /\ scrape_runs' = s.scrape_runs
          /\ ret' = [added |-> s.added, updated |-> s.updated,
                      deleted |-> s.deleted, skipped |-> s.skipped]
    /\ sync_result' = "ok"
    /\ arg' = sheet
    /\ UNCHANGED <<sheet, syncframe>>

\* sheets_sync(db) raises; the caller closes the session, nothing is
\* committed (batch.py:86-96, sheets.py:174-186).
SheetsSyncRaises ==
    /\ sync_result' = "failed"
    /\ arg' = sheet
    /\ ret' = NULL
    /\ UNCHANGED <<dbvars, sheet, syncframe>>

\* The operator adds a row to the roster.
AddRow(r) ==
    /\ Len(sheet) < MaxRows
    /\ sheet' = Append(sheet, r)
    /\ UNCHANGED <<dbvars, sync_result, arg, ret, syncframe>>

\* The operator removes a row from the roster.
RemoveRow(i) ==
    /\ i \in DOMAIN sheet
    /\ sheet' = SubSeq(sheet, 1, i - 1) \o SubSeq(sheet, i + 1, Len(sheet))
    /\ UNCHANGED <<dbvars, sync_result, arg, ret, syncframe>>

NextSync ==
    \/ SheetsSyncReturns
    \/ SheetsSyncRaises
    \/ \E r \in RosterRows : AddRow(r)
    \/ \E i \in 1..MaxRows : RemoveRow(i)

SpecSync == InitSync /\ [][NextSync]_vars

StoredUrls(blds) == { blds[i].url : i \in DOMAIN blds }

\* The last sync returned and the roster has not been edited since.
SyncedWithRoster == sync_result = "ok" /\ arg = sheet

\* C19: after a sync that returned, the URLs of the stored buildings are
\* the non-blank URLs of the roster, one building per URL; a building whose
\* URL is in the roster keeps its id, health state, units and audit rows; a
\* building whose URL is not is gone with its units and audit rows; and a
\* second sync on the same roster adds nothing, deletes nothing and leaves
\* the store as it is.
C19_RosterIsAuthoritative ==
    /\ [](SyncedWithRoster =>
            /\ StoredUrls(buildings) = sheet_urls(sheet)
            /\ \A i, j \in DOMAIN buildings :
                  buildings[i].url = buildings[j].url => i = j
            /\ \A u \in units : u.building_id \in DOMAIN buildings
            /\ \A r \in scrape_runs : r.building_id \in DOMAIN buildings
            /\ ~SyncRaises(sheet)
            /\ sheets_sync_rows(sheet).added = 0
            /\ sheets_sync_rows(sheet).deleted = 0
            /\ sheets_sync_rows(sheet).buildings = buildings
            /\ sheets_sync_rows(sheet).units = units
            /\ sheets_sync_rows(sheet).scrape_runs = scrape_runs)
    /\ [][ (sync_result' = "ok" /\ sheet' = sheet)
            => \A i \in DOMAIN buildings :
                 IF buildings[i].url \in sheet_urls(sheet)
                 THEN /\ i \in DOMAIN buildings'
                      /\ buildings'[i].url = buildings[i].url
                      /\ buildings'[i].last_scrape_status = buildings[i].last_scrape_status
                      /\ buildings'[i].consecutive_zero_count
                            = buildings[i].consecutive_zero_count
                      /\ buildings'[i].last_scraped_at = buildings[i].last_scraped_at
                      /\ { u \in units' : u.building_id = i } = UnitsOf(i)
                      /\ { r \in scrape_runs' : r.building_id = i }
                            = { r \in scrape_runs : r.building_id = i }
                 ELSE /\ i \notin DOMAIN buildings'
                      /\ \A u \in units' : u.building_id /= i
                      /\ \A r \in scrape_runs' : r.building_id /= i ]_vars

\* C19 witness: a sync has just deleted building 2 with its unit and audit
\* rows, kept building 1 with its unit, added a building for a new URL and
\* skipped nothing but counted both.
C19_Witness ==
    /\ SyncedWithRoster
    /\ ret = [added |-> 1, updated |-> 1, deleted |-> 1, skipped |-> 0]
    /\ 1 \in DOMAIN buildings /\ UnitsOf(1) /= {}
    /\ 2 \notin DOMAIN buildings
    /\ NewListed \in StoredUrls(buildings)

-----------------------------------------------------------------------------
(* SpecLlm: _scrape_with_llm on what the extraction service handed back.   *)

\* JSON scalars: a string, a number (its digits), null.
Str(v)   == [t |-> "str", v |-> v]
Num(v)   == [t |-> "num", v |-> v]
JsonNull == [t |-> "null", v |-> ""]

\* Python truthiness of a scalar: None, "" and 0 are false.
Truthy(x) == x.t /= "null" /\ x.v \notin {"", "0"}

\* str.strip() and str.lower() on the strings tried.
strip(v) == IF v = " " THEN "" ELSE v
LowerText(v) == IF v = "Call" THEN "call" ELSE v

\* llm.py:124-127
_RENT_PLACEHOLDER_VALUES ==
    {"", "n/a", "tbd", "call", "contact", "call for pricing",
     "contact for pricing", "call for rent", "varies"}

\* An element of the list: an object with the three fields the filter
\* reads (a missing key reads as null), or something that is not an object.
Item(t, unit_number, bed_type, rent) ==
    [t |-> t, unit_number |-> unit_number, bed_type |-> bed_type, rent |-> rent]

Items ==
    { Item("dict", u, b, r) :
        u \in {JsonNull, Str(" "), Str("101"), Num("101"), Num("0")},
        b \in {JsonNull, Str("1BR"), Num("1")},
        r \in {JsonNull, Str("1500"), Str("Call"), Num("1500")} }
    \cup { Item("str", JsonNull, JsonNull, JsonNull),
           Item("num", JsonNull, JsonNull, JsonNull) }

\* Longest list the service returns.
MaxItems == 2

RECURSIVE ItemLists(_)
ItemLists(n) ==
    IF n = 0 THEN {<<>>}
    ELSE ItemLists(n - 1)
         \cup { Append(s, x) : s \in { y \in ItemLists(n - 1) : Len(y) = n - 1 },
                               x \in Items }

\* result.extracted_content: None, the empty string, text that is not
\* JSON, a JSON object, or a JSON list.
Content(kind, items) == [kind |-> kind, items |-> items]

Contents ==
    { Content(k, <<>>) : k \in {"none", "empty", "invalid", "object"} }
    \cup { Content("list", l) : l \in ItemLists(MaxItems) }

\* (item.get(key) or "").strip() raises AttributeError when the value is
\* true-ish and has no strip method (llm.py:292-294).
StripRaises(item) ==
    \E x \in {item.unit_number, item.bed_type, item.rent} :
        Truthy(x) /\ x.t /= "str"

\* The field as the filter sees it, for an item on which nothing raises.
Stripped(x) == IF Truthy(x) THEN strip(x.v) ELSE ""

\* llm.py:296-301
Kept(item) ==
    /\ Stripped(item.unit_number) /= ""
    /\ Stripped(item.bed_type) /= ""
    /\ LowerText(Stripped(item.rent)) \notin _RENT_PLACEHOLDER_VALUES

Returned(value) == [raised |-> NULL, value |-> value]
Raised(exc)     == [raised |-> exc, value |-> <<>>]

\* The loop of llm.py:288-301 from its first element.
RECURSIVE FilterLoop(_, _)
FilterLoop(items, kept) ==
    IF items = <<>> THEN Returned(kept)
    ELSE LET item == Head(items)
         IN  IF item.t /= "dict" THEN FilterLoop(Tail(items), kept)
             ELSE IF StripRaises(item) THEN Raised("AttributeError")
             ELSE FilterLoop(Tail(items),
                             IF Kept(item) THEN Append(kept, item) ELSE kept)

\* _scrape_with_llm from llm.py:277 on.
_scrape_with_llm(content) ==
    IF content.kind \in {"none", "empty", "invalid"} THEN Returned(<<>>)
    ELSE IF content.kind /= "list" THEN Returned(<<>>)
    ELSE FilterLoop(content.items, <<>>)

InitLlm ==
    /\ Quiescent
    /\ arg \in Contents
    /\ ret = <<>>

CallScrapeWithLlm ==
    /\ arg \in Contents
    /\ ret = <<>>
    /\ ret' = << _scrape_with_llm(arg) >>
    /\ UNCHANGED <<dbvars, clock, attemptvars, batchvars, job, arg>>

NextLlm == CallScrapeWithLlm

SpecLlm == InitLlm /\ [][NextLlm]_vars

\* C20: whatever the extraction service returned, _scrape_with_llm returns
\* a list and raises nothing; content that is not a JSON list gives the
\* empty list, and the list returned holds only well-formed items of the
\* content.
C20_MalformedOutputIsZeroResults ==
    ret /= <<>> =>
        /\ ret[1].raised = NULL
        /\ arg.kind /= "list" => ret[1].value = <<>>
        /\ \A i \in DOMAIN ret[1].value :
              /\ ret[1].value[i] \in Range(arg.items)
              /\ ret[1].value[i].t = "dict"
-----------------------------------------------------------------------------
(* SpecLinks: the link heuristic of the generative strategy                *)
(* (scrapers/tier3/llm.py _score_link and _find_availability_link).        *)

\* llm.py:48-52
_AVAILABILITY_KEYWORDS ==
    { <<"availab", "ility">>, <<"availab", "le">>, <<"apartments">>,
      <<"floor", "-", "plan">>, <<"floor", "plan">>, <<"floor", "_", "plan">>,
      <<"floor", " ", "plan">>, <<"units">>, <<"rent", "als">>, <<"rent">>,
      <<"rates">>, <<"pricing">>, <<"leasing">> }

\* llm.py:55-60
_SKIP_KEYWORDS ==
    { <<"blog">>, <<"news">>, <<"gallery">>, <<"photos">>, <<"contact">>,
      <<"about">>, <<"careers">>, <<"residents">>, <<"login">>, <<"apply">>,
      <<"faq">>, <<"events">>, <<"press">>,
      <<"/", "apartments", "/", "module", "/">>,
      <<"/", "module", "/", "legal">>,
      <<"/", "module", "/", "application">> }

\* llm.py:64-69
_EXPLICIT_SUBPAGES ==
    << <<"/", "floor", "plan", "s">>,
       <<"/", "floor", "-", "plan", "s">>,
       <<"/", "floor", "plan", "s", "/", "all">>,
       <<"/", "apartments">> >>

\* _score_link (llm.py:130-138)
_score_link(href, text) ==
    LET href_l == lower(href)
        text_l == lower(text)
    IN  IF \E kw \in _SKIP_KEYWORDS : Contains(kw, href_l) \/ Contains(kw, text_l)
        THEN 0
        ELSE Cardinality({ kw \in _AVAILABILITY_KEYWORDS :
                             Contains(kw, href_l) \/ Contains(kw, text_l) })

\* _base_url (llm.py:141-144): scheme and network location.
_base_url(url) == <<"https://">> \o urlparse(url).netloc

\* str.strip() and str.rstrip("/") on a text.
RECURSIVE rstrip(_, _)
rstrip(s, c) ==
    IF s /= <<>> /\ s[Len(s)] = c THEN rstrip(SubSeq(s, 1, Len(s) - 1), c) ELSE s

RECURSIVE lstrip(_, _)
lstrip(s, c) == IF s /= <<>> /\ Head(s) = c THEN lstrip(Tail(s), c) ELSE s

strip_text(s) == lstrip(rstrip(s, " "), " ")

\* urllib.parse.urljoin of a page URL that has no path with a reference:
\* an absolute reference stands, a reference that starts with "/" replaces
\* the path, any other reference is a path below the root.
urljoin(base, ref) ==
    IF ref = <<>> THEN base
    ELSE IF Head(ref) = "https://" THEN ref
    ELSE IF Head(ref) = "/" THEN _base_url(base) \o ref
    ELSE _base_url(base) \o <<"/">> \o ref

\* The building's landing page.
BaseUrl == <<"https://", "example", ".com">>

\* An internal link of the landing page as the crawler reports it.
Link(href, text) == [href |-> href, text |-> text]

LinkHrefs ==
    { <<>>,
      <<"#", "pricing">>,
      <<"mailto:", "leasing">>,
      <<"/", "floor", "plan", "s", "/">>,
      <<"https://", "example", ".com", "/", "apartments">>,
      <<"/", "rent", "als">>,
      <<"/", "Pricing">>,
      <<"/", "blog", "/", "rent">>,
      <<"/", "team">> }

LinkTexts ==
    { <<>>, <<" ", "Floor", " ", "plan", "s">>, <<"About">> }

Links == { Link(h, x) : h \in LinkHrefs, x \in LinkTexts }

\* Most links on the landing page.
MaxLinks == 2

RECURSIVE LinkLists(_)
LinkLists(n) ==
    IF n = 0 THEN {<<>>}
    ELSE LinkLists(n - 1)
         \cup { Append(s, x) : s \in { y \in LinkLists(n - 1) : Len(y) = n - 1 },
                               x \in Links }

\* What _find_availability_link works on: which explicit subpage, if any,
\* is the first to validate when probed (0: none), and the landing page's
\* internal links.
Pages == [hit : 0..Len(_EXPLICIT_SUBPAGES), links : LinkLists(MaxLinks)]

NoLinkFound == [fn |-> "find", none |-> TRUE, href |-> <<>>, score |-> 0]
Found(href) == [fn |-> "find", none |-> FALSE, href |-> href, score |-> 0]
Score(href, n) == [fn |-> "score", none |-> FALSE, href |-> href, score |-> n]

\* llm.py:189, 192, 222: the URLs of the explicit subpages.
probed_urls(base_url) ==
    { _base_url(base_url) \o _EXPLICIT_SUBPAGES[i] : i \in DOMAIN _EXPLICIT_SUBPAGES }

\* llm.py:209-224: the links the loop passes over without scoring them.
Skipped(base_url, link) ==
    LET raw_href == strip_text(link.href)
        href     == urljoin(base_url, raw_href)
    IN  \/ raw_href = <<>>
        \/ Head(raw_href) \in {"#", "mailto:"}
        \/ href \in probed_urls(base_url)
        \/ rstrip(href, "/") \in probed_urls(base_url)

\* A variant of the comparison of llm.py:227 that lets a later link of
\* equal score replace the one held.
BetterOrEqual(score, best_score) == score >= best_score /\ score > 0

\* llm.py:227
Better(score, best_score) == score > best_score

\* The loop of llm.py:208-229 and the return of line 231.
RECURSIVE SelectLoop(_, _, _, _)
SelectLoop(base_url, links, best_href, best_score) ==
    IF links = <<>>
    THEN IF best_score > 0 THEN Found(best_href) ELSE NoLinkFound
    ELSE LET link  == Head(links)
             href  == urljoin(base_url, strip_text(link.href))
             score == _score_link(href, strip_text(link.text))
         IN  IF Skipped(base_url, link)
             THEN SelectLoop(base_url, Tail(links), best_href, best_score)
             ELSE IF Better(score, best_score)
             THEN SelectLoop(base_url, Tail(links), href, score)
             ELSE SelectLoop(base_url, Tail(links), best_href, best_score)

\* _find_availability_link (llm.py:172-231)
_find_availability_link(base_url, page) ==
    IF page.hit > 0
    THEN Found(_base_url(base_url) \o _EXPLICIT_SUBPAGES[page.hit])
    ELSE SelectLoop(base_url, page.links, <<>>, 0)

InitLinks ==
    /\ Quiescent
    /\ arg \in Pages
    /\ ret = <<>>

\* _find_availability_link(BaseUrl) is called and returns.
CallFindAvailabilityLink ==
    /\ arg \in Pages
    /\ ret = <<>>
    /\ ret' = << _find_availability_link(BaseUrl, arg) >>
    /\ UNCHANGED <<dbvars, clock, attemptvars, batchvars, job, arg>>

\* _score_link is called on one link of the page, as the loop calls it.
CallScoreLink(i) ==
    /\ arg \in Pages
    /\ ret = <<>>
    /\ i \in DOMAIN arg.links
    /\ LET href == urljoin(BaseUrl, strip_text(arg.links[i].href))
       IN  ret' = << Score(href, _score_link(href, strip_text(arg.links[i].text))) >>
    /\ UNCHANGED <<dbvars, clock, attemptvars, batchvars, job, arg>>

NextLinks ==
    \/ CallFindAvailabilityLink
    \/ \E i \in 1..MaxLinks : CallScoreLink(i)

SpecLinks == InitLinks /\ [][NextLinks]_vars

\* The resolved href and the text of the i-th link of the page.
HrefOf(i) == urljoin(BaseUrl, strip_text(arg.links[i].href))
TextOf(i) == strip_text(arg.links[i].text)

\* A keyword occurs in a link when, letter case set aside, it is a
\* substring of the link's href or of its text.
Occurs(kw, i) == Contains(kw, lower(HrefOf(i))) \/ Contains(kw, lower(TextOf(i)))

\* The score the claim gives the i-th link.
ClaimedScore(i) ==
    IF \E kw \in _SKIP_KEYWORDS : Occurs(kw, i) THEN 0
    ELSE Cardinality({ kw \in _AVAILABILITY_KEYWORDS : Occurs(kw, i) })

\* The selection rule over a set of link positions: the first of the
\* highest-scoring links, and no link when no score is above 0.
SelectsAmong(S) ==
    /\ ret[1].none => \A i \in S : ClaimedScore(i) = 0
    /\ ~ret[1].none =>
          \E i \in S :
              /\ ret[1].href = HrefOf(i)
              /\ ClaimedScore(i) > 0
              /\ \A j \in S : ClaimedScore(j) <= ClaimedScore(i)
              /\ \A j \in S : j < i => ClaimedScore(j) < ClaimedScore(i)

ScoredAsClaimed ==
    (ret /= <<>> /\ ret[1].fn = "score") =>
        \E i \in DOMAIN arg.links :
            ret[1].href = HrefOf(i) /\ ret[1].score = ClaimedScore(i)

\* The links the loop scores: those with an href that is not an anchor or a
\* mailto: reference and that does not lead to an explicit subpage.
Candidates == { i \in DOMAIN arg.links : ~Skipped(BaseUrl, arg.links[i]) }

\* C21 as stated: the score of a link is the number of availability
\* keywords in its href and text, 0 when a skip keyword is present, and
\* when no explicit subpage validates the selection returns the first of
\* the highest-scoring links of the page, or no link when the best score
\* is 0.
C21_SelectsTopLinkOfPage ==
    /\ ScoredAsClaimed
    /\ (ret /= <<>> /\ ret[1].fn = "find" /\ arg.hit = 0) =>
          SelectsAmong(DOMAIN arg.links)

\* C21: the score of a link is the number of availability keywords in its
\* href and text, 0 when a skip keyword is present; when no explicit subpage
\* validates, the selection returns the first of the highest-scoring links
\* among the links that have an href, are not anchors or mailto: references
\* and do not lead to an explicit subpage already probed, and no link when
\* the best score among them is 0.
C21_SelectsTopCandidate ==
    /\ ScoredAsClaimed
    /\ (ret /= <<>> /\ ret[1].fn = "find" /\ arg.hit = 0) =>
          SelectsAmong(Candidates)

\* Two candidates tie on the top score and the earlier one is returned.
C21_Witness ==
    /\ ret /= <<>>
    /\ ret[1].fn = "find"
    /\ arg.hit = 0
    /\ Candidates = {1, 2}
    /\ HrefOf(1) /= HrefOf(2)
    /\ ClaimedScore(1) = ClaimedScore(2)
    /\ ClaimedScore(1) > 0
    /\ ret[1].href = HrefOf(1)
-----------------------------------------------------------------------------
(* SpecPpm: the buildings of the shared-page platform within one batch run *)
(* (scrapers/tier1/ppm.py, called once per building by                     *)
(* scrape_one_building; the platform semaphore of size 1 lets one call run *)
(* at a time).                                                             *)

\* Names of the ppm buildings in the store.
PpmBuildings == {"100 W Chestnut", "Elm Tower", "Lake View"}

\* A unit card of the availability page (ppm.py:59-83).
Card(building_name, unit_number) ==
    [building_name |-> building_name, unit_number |-> unit_number]

PpmCards ==
    { Card("100 W. Chestnut", "1A"), Card("ELM TOWER", "2B"),
      Card("Lake View", "3C"), Card("Oak Court", "4D") }

\* What the site may publish at /availability/.
PpmPages == SUBSET PpmCards

\* _normalize_name (ppm.py:86-88) on the names above: lower case, no
\* punctuation.
_normalize_name(name) ==
    CASE name \in {"100 W. Chestnut", "100 W Chestnut"} -> "100 w chestnut"
      [] name \in {"ELM TOWER", "Elm Tower"}             -> "elm tower"
      [] name = "Lake View"                              -> "lake view"
      [] name = "Oak Court"                              -> "oak court"
      [] OTHER                                           -> name

\* _matches_building (ppm.py:91-98); among the normalized names above none
\* is a proper substring of another.
_matches_building(unit_building_name, building_name) ==
    _normalize_name(unit_building_name) = _normalize_name(building_name)

\* The filter of scrape (ppm.py:117-122) on the parsed page.
Matched(all_units, building_name) ==
    { c.unit_number : c \in { u \in all_units :
                                _matches_building(u.building_name, building_name) } }

InitPpm ==
    /\ Quiescent
    /\ arg \in PpmPages
    /\ ret = [fetches |-> 0, served |-> {}]

\* ppm.scrape(building) for a building of the run that has not had its turn:
\* _fetch_all_ppm_units() renders the page (ppm.py:116), then the filter.
PpmScrape(b) ==
    /\ b \in PpmBuildings
    /\ \A s \in ret.served : s.building /= b
    /\ ret' = [fetches |-> ret.fetches + 1,
               served  |-> ret.served \cup
                           { [building |-> b, units |-> Matched(arg, b)] }]
    /\ UNCHANGED <<dbvars, clock, attemptvars, batchvars, job, arg>>

\* The site publishes another page while the run is under way.
PagePublished(p) ==
    /\ p \in PpmPages
    /\ p /= arg
    /\ Cardinality(ret.served) < Cardinality(PpmBuildings)
    /\ arg' = p
    /\ UNCHANGED <<dbvars, clock, attemptvars, batchvars, job, ret>>

NextPpm ==
    \/ \E b \in PpmBuildings : PpmScrape(b)
    \/ \E p \in PpmPages : PagePublished(p)

SpecPpm == InitPpm /\ [][NextPpm]_vars

\* C22: within one batch run the shared availability page is fetched
\* exactly once however many ppm buildings are scraped: no fetch before the
\* first building, one fetch from then on.
C22_SharedPageFetchedOnce ==
    /\ ret.fetches <= 1
    /\ ret.served /= {} => ret.fetches = 1
-----------------------------------------------------------------------------
(* SpecRentCafe: the credentialed-API strategy                             *)
(* (scrapers/tier1/rentcafe.py scrape) against what the building record    *)
(* holds and what the API answers.                                         *)

\* An element of the response list: a unit record, an error object
\* {"Error": "1020"}, or a JSON number.  AvailableDate is a date, the empty
\* string, or null.
ApiItem(t, name, date) == [t |-> t, ApartmentName |-> name, AvailableDate |-> date]

ApiItems ==
    { ApiItem("unit", "110", "3/1/2026"), ApiItem("unit", "201", "4/15/2026"),
      ApiItem("unit", "305", ""), ApiItem("unit", "410", NULL),
      ApiItem("error", "", NULL), ApiItem("num", "", NULL) }

\* Most elements in a response list.
MaxRecords == 2

RECURSIVE ApiLists(_)
ApiLists(n) ==
    IF n = 0 THEN {<<>>}
    ELSE ApiLists(n - 1)
         \cup { Append(s, x) : s \in { y \in ApiLists(n - 1) : Len(y) = n - 1 },
                               x \in ApiItems }

\* The body of a response: text that is not JSON, JSON null, a JSON object
\* (empty, or an error object outside a list), or a JSON list.
Body(kind, items) == [kind |-> kind, items |-> items]

Bodies ==
    { Body(k, <<>>) : k \in {"invalid", "null", "empty_object", "error_object"} }
    \cup { Body("list", l) : l \in ApiLists(MaxRecords) }

\* What httpx.get meets: no response at all (connection or timeout error),
\* or a response with a status code and a body.
Response(status, body) == [status |-> status, body |-> body]

Responses ==
    { Response(s, Body("invalid", <<>>)) : s \in {0, 301, 404, 500} }
    \cup { Response(200, b) : b \in Bodies }

\* rentcafe_property_id and rentcafe_api_token of the building record: None,
\* empty, or set (the token possibly stored URL-encoded).
Credentials == [property_id : {NULL, "", "dey"}, api_token : {NULL, "", "TOKEN%3d"}]

\* How a call ended: the exception raised (NULL when none), the list
\* returned, and the requests that went out.
Outcome(raised, value, requests) ==
    [raised |-> raised, value |-> value, requests |-> requests]

\* A variant of _check_for_api_error that lets every response through.
ChecksNothing(data) == FALSE

\* _check_for_api_error (rentcafe.py:53-56) raises: data is a non-empty list
\* whose first element has the key "Error".
_check_for_api_error(data) ==
    data.kind = "list" /\ data.items /= <<>> /\ data.items[1].t = "error"

\* _is_available (rentcafe.py:82-90)
_is_available(raw) == raw.AvailableDate \notin {NULL, ""}

\* _map_unit (rentcafe.py:93-115), the fields the claim is about.
_map_unit(raw) ==
    [unit_number |-> raw.ApartmentName, availability_date |-> raw.AvailableDate]

\* The comprehension of rentcafe.py:155 from its first element: a number
\* has no .get.
RECURSIVE MapAvailable(_, _)
MapAvailable(items, out) ==
    IF items = <<>> THEN [raised |-> NULL, value |-> out]
    ELSE IF Head(items).t = "num" THEN [raised |-> "AttributeError", value |-> <<>>]
    ELSE MapAvailable(Tail(items),
                      IF _is_available(Head(items))
                      THEN Append(out, _map_unit(Head(items))) ELSE out)

\* rentcafe.py:150-155 on the parsed body.
AfterFetch(data) ==
    IF data.kind = "list" /\ data.items /= <<>> /\ data.items[1].t = "num"
    THEN Outcome("TypeError", <<>>, 1)           \* "Error" in 5
    ELSE IF _check_for_api_error(data) THEN Outcome("RentCafeAPIError", <<>>, 1)
    ELSE IF data.kind = "null" THEN Outcome("TypeError", <<>>, 1)
    ELSE IF data.kind = "error_object" THEN Outcome("AttributeError", <<>>, 1)
    ELSE IF data.kind = "empty_object" THEN Outcome(NULL, <<>>, 1)
    ELSE LET r == MapAvailable(data.items, <<>>)
         IN  Outcome(r.raised, r.value, 1)

\* _fetch_units (rentcafe.py:59-79) and the rest of scrape.
FetchAndMap(response) ==
    IF response.status = 0 THEN Outcome("TransportError", <<>>, 1)
    ELSE IF response.status \notin 200..299 THEN Outcome("HTTPStatusError", <<>>, 1)
    ELSE IF response.body.kind = "invalid" THEN Outcome("JSONDecodeError", <<>>, 1)
    ELSE AfterFetch(response.body)

\* scrape (rentcafe.py:118-155)
rentcafe_scrape(building, response) ==
    IF building.property_id \in {NULL, ""} \/ building.api_token \in {NULL, ""}
    THEN Outcome("RentCafeCredentialError", <<>>, 0)
    ELSE FetchAndMap(response)

InitRentCafe ==
    /\ Quiescent
    /\ arg \in [building : Credentials, response : Responses]
    /\ ret = <<>>

CallRentCafeScrape ==
    /\ arg \in [building : Credentials, response : Responses]
    /\ ret = <<>>
    /\ ret' = << rentcafe_scrape(arg.building, arg.response) >>
    /\ UNCHANGED <<dbvars, clock, attemptvars, batchvars, job, arg>>

NextRentCafe == CallRentCafeScrape

SpecRentCafe == InitRentCafe /\ [][NextRentCafe]_vars

\* The building record lacks a credential.
CredentialsMissing ==
    arg.building.property_id \in {NULL, ""} \/ arg.building.api_token \in {NULL, ""}

\* The response records with a non-empty AvailableDate, in response order.
AvailableRecords(items) ==
    LET Listed(r) == r.t = "unit" /\ r.AvailableDate /= NULL /\ r.AvailableDate /= ""
        kept == SelectSeq(items, Listed)
    IN  [i \in DOMAIN kept |->
            [unit_number |-> kept[i].ApartmentName,
             availability_date |-> kept[i].AvailableDate]]

\* The 200 response carries an Error object somewhere.
EmbedsError ==
    \/ arg.response.body.kind = "error_object"
    \/ \E i \in DOMAIN arg.response.body.items : arg.response.body.items[i].t = "error"

\* C23 as stated: every call ends in one of four outcomes, chosen by the
\* credentials, the status and the presence of an Error object.
C23_FourOutcomes ==
    ret /= <<>> =>
        /\ ret[1].raised \in {NULL, "RentCafeCredentialError", "TransportError",
                              "HTTPStatusError", "RentCafeAPIError"}
        /\ CredentialsMissing =>
              ret[1].raised = "RentCafeCredentialError" /\ ret[1].requests = 0
        /\ (~CredentialsMissing /\ arg.response.status \notin 200..299) =>
              ret[1].raised \in {"TransportError", "HTTPStatusError"}
        /\ (~CredentialsMissing /\ arg.response.status \in 200..299 /\ EmbedsError) =>
              ret[1].raised = "RentCafeAPIError"
        /\ (~CredentialsMissing /\ arg.response.status \in 200..299 /\ ~EmbedsError) =>
              /\ ret[1].raised = NULL
              /\ ret[1].value = AvailableRecords(arg.response.body.items)

\* The body is a JSON list of objects.
ListOfObjects ==
    /\ arg.response.body.kind = "list"
    /\ \A i \in DOMAIN arg.response.body.items :
          arg.response.body.items[i].t \in {"unit", "error"}

\* C23: absent or empty credentials end in RentCafeCredentialError with no
\* request sent; otherwise one request goes out, and no response or a
\* non-2xx response ends in a transport or HTTP error; a 2xx response whose
\* body is a JSON list of objects ends in RentCafeAPIError when the first
\* object carries an Error key, and otherwise in the list of the records
\* whose AvailableDate is non-empty; the error kinds differ.
C23_OutcomesOnListResponses ==
    ret /= <<>> =>
        /\ CredentialsMissing =>
              ret[1].raised = "RentCafeCredentialError" /\ ret[1].requests = 0
        /\ ~CredentialsMissing => ret[1].requests = 1
        /\ (~CredentialsMissing /\ arg.response.status = 0) =>
              ret[1].raised = "TransportError"
        /\ (~CredentialsMissing /\ arg.response.status /= 0
                                /\ arg.response.status \notin 200..299) =>
              ret[1].raised = "HTTPStatusError"
        /\ (~CredentialsMissing /\ arg.response.status \in 200..299 /\ ListOfObjects) =>
              IF arg.response.body.items /= <<>> /\ arg.response.body.items[1].t = "error"
              THEN ret[1].raised = "RentCafeAPIError"
              ELSE /\ ret[1].raised = NULL
                   /\ ret[1].value = AvailableRecords(arg.response.body.items)
        /\ ret[1].raised = NULL => ret[1].requests = 1

\* A 200 response with an occupied and an available unit: the call returns
\* the available one alone.
C23_Witness ==
    /\ ret /= <<>>
    /\ ret[1].raised = NULL
    /\ arg.response.status = 200
    /\ arg.response.body.items = << ApiItem("unit", "305", ""),
                                    ApiItem("unit", "110", "3/1/2026") >>
    /\ Len(ret[1].value) = 1
    /\ ret[1].value[1].unit_number = "110"
-----------------------------------------------------------------------------
(* SpecBed: UnitInput.normalize_bed_type and the non_canonical flag of     *)
(* normalize (normalizer.py).  A text is the sequence of its words (runs   *)
(* of letters) and of its other characters, one symbol each.               *)

\* normalizer.py:18-25
CANONICAL_BED_TYPES ==
    { <<"Studio">>,
      <<"Convertible">>,
      <<"1", "BR">>,
      <<"1", "BR", "+", "Den">>,
      <<"2", "BR">>,
      <<"3", "BR", "+">> }

\* normalizer.py:29-82: alias |-> canonical bed type.
Alias(key, value) == [key |-> key, value |-> value]

BED_TYPE_ALIASES ==
    { Alias(<<"0">>, <<"Studio">>),
      Alias(<<"0", "br">>, <<"Studio">>),
      Alias(<<"studio">>, <<"Studio">>),
      Alias(<<"studio", "/", "1", " ", "bath">>, <<"Studio">>),
      Alias(<<"studio", "/", "1", "bath">>, <<"Studio">>),
      Alias(<<"convertible">>, <<"Convertible">>),
      Alias(<<"alcove">>, <<"Convertible">>),
      Alias(<<"jr", " ", "1", "br">>, <<"Convertible">>),
      Alias(<<"jr", " ", "one", " ", "bedroom", "/", "1", " ", "bath">>, <<"Convertible">>),
      Alias(<<"junior", " ", "one", " ", "bedroom", "/", "1", " ", "bath">>, <<"Convertible">>),
      Alias(<<"convertible", "/", "1", " ", "bath">>, <<"Convertible">>),
      Alias(<<"convertible", "/", "1", "bath">>, <<"Convertible">>),
      Alias(<<"1">>, <<"1", "BR">>),
      Alias(<<"1", "br">>, <<"1", "BR">>),
      Alias(<<"1", " ", "bed">>, <<"1", "BR">>),
      Alias(<<"one", " ", "bedroom">>, <<"1", "BR">>),
      Alias(<<"1", " ", "bedroom", "/", "1", "bath">>, <<"1", "BR">>),
      Alias(<<"1", " ", "bedroom", "/", "1", " ", "bath">>, <<"1", "BR">>),
      Alias(<<"1", "br", "+", "den">>, <<"1", "BR", "+", "Den">>),
      Alias(<<"1", " ", "bed", " ", "den">>, <<"1", "BR", "+", "Den">>),
      Alias(<<"1", "+", "den">>, <<"1", "BR", "+", "Den">>),
      Alias(<<"2">>, <<"2", "BR">>),
      Alias(<<"2", "br">>, <<"2", "BR">>),
      Alias(<<"2", " ", "bed">>, <<"2", "BR">>),
      Alias(<<"2", " ", "beds">>, <<"2", "BR">>),
      Alias(<<"two", " ", "bedroom">>, <<"2", "BR">>),
      Alias(<<"2", " ", "bedroom", "/", "1", " ", "bath">>, <<"2", "BR">>),
      Alias(<<"2", " ", "bedroom", "/", "1", "bath">>, <<"2", "BR">>),
      Alias(<<"2", " ", "bedroom", "/", "2", " ", "bath">>, <<"2", "BR">>),
      Alias(<<"2", " ", "bedroom", "/", "2", "bath">>, <<"2", "BR">>),
      Alias(<<"3">>, <<"3", "BR", "+">>),
      Alias(<<"3", "br">>, <<"3", "BR", "+">>),
      Alias(<<"3", " ", "bed">>, <<"3", "BR", "+">>),
      Alias(<<"3", " ", "beds">>, <<"3", "BR", "+">>),
      Alias(<<"3", "+">>, <<"3", "BR", "+">>),
      Alias(<<"4", "br">>, <<"3", "BR", "+">>),
      Alias(<<"4", " ", "beds">>, <<"3", "BR", "+">>),
      Alias(<<"4", " ", "bed">>, <<"3", "BR", "+">>),
      Alias(<<"3", " ", "bedroom", "/", "3", " ", "bath">>, <<"3", "BR", "+">>),
      Alias(<<"3", " ", "bedroom", "/", "2", " ", "bath">>, <<"3", "BR", "+">>),
      Alias(<<"3", " ", "bedroom", "/", "3", "bath">>, <<"3", "BR", "+">>),
      Alias(<<"loft", " ", "studio">>, <<"Studio">>),
      Alias(<<"convertible", " ", "deluxe">>, <<"Convertible">>) }

\* str.lower() on a word written in capitals or with a capital initial.
LowerWord(c) ==
    CASE c = "ALCOVE" -> "alcove"
      [] c = "Alcove" -> "alcove"
      [] c = "BATH" -> "bath"
      [] c = "Bath" -> "bath"
      [] c = "BED" -> "bed"
      [] c = "Bed" -> "bed"
      [] c = "BEDROOM" -> "bedroom"
      [] c = "Bedroom" -> "bedroom"
      [] c = "BEDS" -> "beds"
      [] c = "Beds" -> "beds"
      [] c = "BR" -> "br"
      [] c = "Br" -> "br"
      [] c = "CONVERTIBLE" -> "convertible"
      [] c = "Convertible" -> "convertible"
      [] c = "DELUXE" -> "deluxe"
      [] c = "Deluxe" -> "deluxe"
      [] c = "DEN" -> "den"
      [] c = "Den" -> "den"
      [] c = "DUPLEX" -> "duplex"
      [] c = "Duplex" -> "duplex"
      [] c = "JR" -> "jr"
      [] c = "Jr" -> "jr"
      [] c = "JUNIOR" -> "junior"
      [] c = "Junior" -> "junior"
      [] c = "LOFT" -> "loft"
      [] c = "Loft" -> "loft"
      [] c = "ONE" -> "one"
      [] c = "One" -> "one"
      [] c = "PENTHOUSE" -> "penthouse"
      [] c = "Penthouse" -> "penthouse"
      [] c = "STUDIO" -> "studio"
      [] c = "Studio" -> "studio"
      [] c = "TWO" -> "two"
      [] c = "Two" -> "two"
      [] OTHER -> c

lower_words(s) == [i \in DOMAIN s |-> LowerWord(s[i])]

\* str.upper() and str.title() on a lower-case word.
UpperWord(c) ==
    CASE c = "alcove" -> "ALCOVE"
      [] c = "bath" -> "BATH"
      [] c = "bed" -> "BED"
      [] c = "bedroom" -> "BEDROOM"
      [] c = "beds" -> "BEDS"
      [] c = "br" -> "BR"
      [] c = "convertible" -> "CONVERTIBLE"
      [] c = "deluxe" -> "DELUXE"
      [] c = "den" -> "DEN"
      [] c = "duplex" -> "DUPLEX"
      [] c = "jr" -> "JR"
      [] c = "junior" -> "JUNIOR"
      [] c = "loft" -> "LOFT"
      [] c = "one" -> "ONE"
      [] c = "penthouse" -> "PENTHOUSE"
      [] c = "studio" -> "STUDIO"
      [] c = "two" -> "TWO"
      [] OTHER -> c

TitleWord(c) ==
    CASE c = "alcove" -> "Alcove"
      [] c = "bath" -> "Bath"
      [] c = "bed" -> "Bed"
      [] c = "bedroom" -> "Bedroom"
      [] c = "beds" -> "Beds"
      [] c = "br" -> "Br"
      [] c = "convertible" -> "Convertible"
      [] c = "deluxe" -> "Deluxe"
      [] c = "den" -> "Den"
      [] c = "duplex" -> "Duplex"
      [] c = "jr" -> "Jr"
      [] c = "junior" -> "Junior"
      [] c = "loft" -> "Loft"
      [] c = "one" -> "One"
      [] c = "penthouse" -> "Penthouse"
      [] c = "studio" -> "Studio"
      [] c = "two" -> "Two"
      [] OTHER -> c
\* UnitInput.normalize_bed_type (normalizer.py:99-105)
normalize_bed_type(v) ==
    LET stripped == strip_text(v)
        lowered  == lower_words(stripped)
        hits     == { a \in BED_TYPE_ALIASES : a.key = lowered }
    IN  IF hits = {} THEN stripped ELSE (CHOOSE a \in hits : TRUE).value

\* bed_type and non_canonical as normalize returns them (normalizer.py:170-177).
BedFields(v) ==
    LET bed_type == normalize_bed_type(v)
    IN  [bed_type |-> bed_type, non_canonical |-> bed_type \notin CANONICAL_BED_TYPES]

\* The spellings tried: every alias, the six categories, and three values
\* the table does not know, each in lower case, in capitals, with capital
\* initials and (the categories) as the code spells them, bare or padded
\* with blanks.
UnmappedBedTypes == { <<"penthouse">>, <<"duplex">>, <<"5", "br">> }

BedSpellings ==
    { a.key : a \in BED_TYPE_ALIASES }
    \cup { lower_words(c) : c \in CANONICAL_BED_TYPES }
    \cup UnmappedBedTypes

CaseVariants(s) ==
    { s, [i \in DOMAIN s |-> UpperWord(s[i])], [i \in DOMAIN s |-> TitleWord(s[i])] }

Padded(s) == { s, <<" ">> \o s, s \o <<" ">>, <<" ">> \o s \o <<" ">> }

BedInputs ==
    UNION { Padded(v) : v \in (UNION { CaseVariants(s) : s \in BedSpellings })
                              \cup CANONICAL_BED_TYPES }

InitBed ==
    /\ Quiescent
    /\ arg \in BedInputs
    /\ ret = <<>>

\* normalize is applied to a record with bed_type = arg, and then to a
\* record with the bed_type it returned.
CallNormalizeBedType ==
    /\ arg \in BedInputs
    /\ ret = <<>>
    /\ ret' = << BedFields(arg), BedFields(BedFields(arg).bed_type) >>
    /\ UNCHANGED <<dbvars, clock, attemptvars, batchvars, job, arg>>

NextBed == CallNormalizeBedType

SpecBed == InitBed /\ [][NextBed]_vars

\* The categories a value is a case or whitespace variant of, directly or
\* through an alias.
CategoriesOf(v) ==
    { c \in CANONICAL_BED_TYPES :
        \/ lower_words(strip_text(v)) = lower_words(c)
        \/ \E a \in BED_TYPE_ALIASES :
              a.key = lower_words(strip_text(v)) /\ a.value = c }

\* C24: a case or whitespace variant of an alias or of a canonical category
\* normalizes to that category with non_canonical false; a value that is
\* already canonical comes back unchanged, so normalizing twice equals
\* normalizing once; any other value comes through as written (blanks
\* around it aside) with non_canonical true.
C24_BedTypeInsensitiveIdempotent ==
    ret /= <<>> =>
        /\ \A c \in CategoriesOf(arg) :
              ret[1].bed_type = c /\ ~ret[1].non_canonical
        /\ CategoriesOf(arg) = {} =>
              ret[1].bed_type = strip_text(arg) /\ ret[1].non_canonical
        /\ arg \in CANONICAL_BED_TYPES => ret[1].bed_type = arg
        /\ ret[2] = ret[1]
-----------------------------------------------------------------------------
(* SpecRent: UnitInput.normalize_rent (normalizer.py:107-128) on rent      *)
(* texts.  A text is a sequence of symbols: a run of digits, a word, or    *)
(* one of "$" "," "." "/mo" "-" "+" " " and "en-dash" (U+2013).  *)

\* float() reads a run of digits as its number; the runs tried.
DigitsValue(d) ==
    CASE d = "0" -> 0   [] d = "1" -> 1     [] d = "2" -> 2     [] d = "5" -> 5
      [] d = "00" -> 0  [] d = "005" -> 5   [] d = "100" -> 100 [] d = "125" -> 125
      [] d = "211" -> 211 [] d = "500" -> 500 [] d = "799" -> 799 [] d = "995" -> 995
      [] OTHER -> -1

DigitsLen(d) ==
    CASE d \in {"0", "1", "2", "5"} -> 1
      [] d = "00" -> 2
      [] OTHER -> 3

IsDigits(d) == DigitsValue(d) >= 0

Pow10(n) == CASE n = 0 -> 1 [] n = 1 -> 10 [] n = 2 -> 100 [] OTHER -> 1000

\* The number a sequence of digit runs spells when written without gaps.
RECURSIVE DigitsOf(_)
DigitsOf(s) ==
    IF s = <<>> THEN 0
    ELSE DigitsOf(SubSeq(s, 1, Len(s) - 1)) * Pow10(DigitsLen(s[Len(s)]))
         + DigitsValue(s[Len(s)])

\* str.lower() on the words of a rent text.
LowerRent(c) ==
    CASE c \in {"Starting at", "STARTING AT"} -> "starting at"
      [] c = "Infinity" -> "infinity"
      [] OTHER -> c

\* str.replace(x, "") for each symbol x of a set.
Without(s, symbols) == SelectSeq(s, LAMBDA c : c \notin symbols)

\* Position of the first occurrence of a pattern in a text (0: none).
IndexOf(pattern, text) ==
    IF Contains(pattern, text)
    THEN 1 + CHOOSE i \in 0..(Len(text) - Len(pattern)) :
                 /\ SubSeq(text, i + 1, i + Len(pattern)) = pattern
                 /\ \A j \in 0..(i - 1) : SubSeq(text, j + 1, j + Len(pattern)) /= pattern
    ELSE 0

\* normalizer.py:118: the separators of a range, in the order tried.
RangeSeparators == << <<" ", "en-dash", " ">>, <<" ", "-", " ">>, <<"en-dash">>, <<"-">> >>

\* normalizer.py:118-122: the part before the first separator that occurs.
LowerPart(s) ==
    LET found == { i \in DOMAIN RangeSeparators : Contains(RangeSeparators[i], s) }
    IN  IF found = {} THEN s
        ELSE LET sep == RangeSeparators[CHOOSE i \in found : \A j \in found : i <= j]
             IN  strip_text(Without(SubSeq(s, 1, IndexOf(sep, s) - 1), {"$", ","}))

\* normalizer.py:111-122: the text handed to float().
RentResidue(v) ==
    LET s0 == strip_text(v)
        s1 == IF s0 /= <<>> /\ LowerRent(Head(s0)) = "starting at"
              THEN strip_text(Tail(s0)) ELSE s0
        s2 == strip_text(Without(s1, {"$", ",", "/mo"}))
    IN  LowerPart(s2)

\* float(s): a decimal number in thousandths of a dollar, infinity, not a
\* number, or ValueError.
Parsed(kind, mills) == [kind |-> kind, mills |-> mills]

float(s) ==
    LET dot == IndexOf(<<".">>, s)
        int_part  == IF dot = 0 THEN s ELSE SubSeq(s, 1, dot - 1)
        frac_part == IF dot = 0 THEN <<>> ELSE SubSeq(s, dot + 1, Len(s))
    IN  IF Len(s) = 1 /\ LowerRent(s[1]) \in {"inf", "infinity"} THEN Parsed("inf", 0)
        ELSE IF s = <<"nan">> THEN Parsed("nan", 0)
        ELSE IF /\ s /= <<>>
                /\ s /= <<".">>
                /\ \A i \in DOMAIN int_part : IsDigits(int_part[i])
                /\ Len(frac_part) <= 1
                /\ \A i \in DOMAIN frac_part : IsDigits(frac_part[i])
        THEN Parsed("num",
                    DigitsOf(int_part) * 1000
                    + (IF frac_part = <<>> THEN 0
                       ELSE DigitsValue(frac_part[1]) * Pow10(3 - DigitsLen(frac_part[1]))))
        ELSE Parsed("ValueError", 0)

\* round(x * 100) for x given in thousandths: the nearest integer; on a half
\* the binary product lies on either side, and an exact half goes to the
\* even neighbour, so either neighbour can come out.
RoundCents(mills) ==
    IF mills % 10 < 5 THEN { mills \div 10 }
    ELSE IF mills % 10 > 5 THEN { mills \div 10 + 1 }
    ELSE { mills \div 10, mills \div 10 + 1 }

RentOutcome(raised, cents) == [raised |-> raised, cents |-> cents]

\* normalizer.py:124-128 and the validator's frame: round() of infinity
\* raises OverflowError, which is not a ValueError and leaves normalize as
\* it is; round() of NaN and float() of other text raise ValueError, which
\* the frame reports as ValidationError.
ToCents(x) ==
    IF x.kind = "num" THEN { RentOutcome(NULL, c) : c \in RoundCents(x.mills) }
    ELSE IF x.kind = "inf" THEN { RentOutcome("OverflowError", 0) }
    ELSE { RentOutcome("ValidationError", 0) }

\* UnitInput.normalize_rent: the ways it can end on a text.
RentOutcomes(v) == ToCents(float(RentResidue(v)))

RentAmounts ==
    { <<"$", "1", ",", "500", ".", "00">>, <<"995", ".", "5">>,
      <<"2", ",", "211">>, <<"0", ".", "125">>, <<"1", ".", "005">> }

RentPrefixes == { <<>>, <<" ">>, <<"Starting at", " ">>, <<"STARTING AT", " ", "$">> }

RentSuffixes ==
    { <<>>, <<"/mo">>, <<" ", "-", " ", "$", "2", ",", "799">>, <<"-", "$", "2", "799">>,
      <<" ", "en-dash", " ", "$", "2", ",", "799", "/mo">>, <<"+">> }

RentTexts ==
    { p \o a \o s : p \in RentPrefixes, a \in RentAmounts, s \in RentSuffixes }
    \cup { <<>>, <<"call">>, <<"nan">>, <<"inf">>, <<"Infinity">>, <<"-", "100">>,
           <<"$", "1", ".", "5", ".", "00">> }

InitRent ==
    /\ Quiescent
    /\ arg \in RentTexts
    /\ ret = <<>>

\* normalize is applied to a record whose rent is arg.
CallNormalizeRent ==
    /\ arg \in RentTexts
    /\ ret = <<>>
    /\ \E o \in RentOutcomes(arg) : ret' = << o >>
    /\ UNCHANGED <<dbvars, clock, attemptvars, batchvars, job, arg>>

NextRent == CallNormalizeRent

SpecRent == InitRent /\ [][NextRent]_vars

\* A decimal dollar amount: digits, with or without a fraction.
IsDecimal(s) == float(s).kind = "num"

\* C25: with the currency symbol, the thousands separators, "/mo" and a
\* leading "Starting at" stripped and a range cut to its first bound, a
\* decimal amount is returned in integer cents, rounded to a nearest cent
\* and not truncated, and any other residue is a validation failure.
C25_RentToCents ==
    ret /= <<>> =>
        LET residue == RentResidue(arg)
        IN  /\ IsDecimal(residue) =>
                 /\ ret[1].raised = NULL
                 /\ 10 * ret[1].cents - float(residue).mills \in -5..5
            /\ ~IsDecimal(residue) => ret[1].raised = "ValidationError"
-----------------------------------------------------------------------------
(* The audit rows over a batch run (SpecBatch).                            *)

\* The step is the delete of _prune_old_runs.
PruneStep == bpc = "prune" /\ bpc' = "done"

\* A row is older than the retention period when the prune runs.
Expired(r) == r.run_at < clock - PruneDays

\* The row's building leaves the store in this step.
BuildingDeleted(r) ==
    r.building_id \in DOMAIN buildings /\ r.building_id \notin DOMAIN buildings'

\* A row of this building and run time is in the table after the step.
StillRecorded(r) ==
    \E x \in scrape_runs' : x.building_id = r.building_id /\ x.run_at = r.run_at

\* C26: scrape_runs is append-only: in every step each row either stays as
\* it is, or it is deleted, never changed; it is deleted only by the prune
\* step when its run_at is more than 30 days back, or together with its
\* building when the roster sync deletes that; every row that is not older
\* than 30 days survives the prune.
C26_RunsAppendOnly ==
    [][ /\ \A r \in scrape_runs :
              \/ r \in scrape_runs'
              \/ /\ ~StillRecorded(r)
                 /\ \/ PruneStep /\ Expired(r)
                    \/ BuildingDeleted(r)
        /\ PruneStep =>
              \A r \in scrape_runs : ~Expired(r) => r \in scrape_runs' ]_vars

\* After a run whose roster sync failed: the dead building's row of 35 days
\* ago is pruned, yesterday's rows and the rows of this run are kept.
C26_Witness ==
    /\ bpc = "done"
    /\ sync_result = "failed"
    /\ DeadBuilding \in DOMAIN buildings
    /\ \A r \in scrape_runs : r.building_id /= DeadBuilding
    /\ \E r \in scrape_runs : r.run_at = 39
    /\ \E r \in scrape_runs : r.run_at >= 40
-----------------------------------------------------------------------------
(* SpecDispatch: the four paths that run a strategy for a building and the *)
(* table each of them resolves the platform tag with.                      *)

\* scrapers/registry.py:9-22, with the module each tag maps to.
registry_PLATFORM_SCRAPERS ==
    [rentcafe |-> "tier2.securecafe", ppm      |-> "tier1.ppm",
     funnel   |-> "tier2.funnel",     appfolio |-> "tier2.appfolio",
     bozzuto  |-> "tier2.bozzuto",    realpage |-> "tier2.realpage",
     groupfox |-> "tier2.groupfox",   sightmap |-> "tier2.sightmap",
     entrata  |-> "tier3.llm",        mri      |-> "tier3.llm",
     llm      |-> "tier3.llm"]

\* scrape.py:25-34
scrape_PLATFORM_SCRAPERS ==
    [rentcafe |-> "tier1.rentcafe", ppm      |-> "tier1.ppm",
     funnel   |-> "tier2.funnel",   appfolio |-> "tier2.appfolio",
     bozzuto  |-> "tier2.bozzuto",  realpage |-> "tier2.realpage",
     groupfox |-> "tier2.groupfox", llm      |-> "tier3.llm"]

\* sync/push_availability.py:26-38
push_availability_PLATFORM_SCRAPERS ==
    [rentcafe |-> "tier1.rentcafe", ppm      |-> "tier1.ppm",
     funnel   |-> "tier2.funnel",   appfolio |-> "tier2.appfolio",
     bozzuto  |-> "tier2.bozzuto",  realpage |-> "tier2.realpage",
     groupfox |-> "tier2.groupfox", entrata  |-> "tier3.llm",
     mri      |-> "tier3.llm",      llm      |-> "tier3.llm"]

DispatchPaths == {"batch", "admin", "scrape_cli", "validate_cli"}

\* The platform column of the building: a tag, a tag no table knows, or None.
StoredPlatforms ==
    PLATFORM_SCRAPERS \cup SKIP_PLATFORMS \cup {"yardi", NULL}

\* What detect_platform makes of the building's URL.
DetectedPlatforms == {NULL, "rentcafe", "appfolio"}

\* How a path ended for a building: the tag it settled on and the module
\* whose scrape() it called (NULL: no strategy ran).
Dispatched(tag, module) == [tag |-> tag, module |-> module]

Lookup(table, tag) ==
    IF tag \in DOMAIN table THEN Dispatched(tag, table[tag]) ELSE Dispatched(tag, NULL)

\* run_batch step 2 (batch.py:103-115) and runner.py:56.
BatchDispatch(platform) ==
    IF platform = NULL \/ platform \in SKIP_PLATFORMS
    THEN Dispatched(platform, NULL)
    ELSE Lookup(registry_PLATFORM_SCRAPERS, platform)

\* trigger_rescrape (admin.py:123) and runner.py:56; a tag the registry
\* lacks raises KeyError inside scrape_one_building.
AdminDispatch(platform) ==
    Lookup(registry_PLATFORM_SCRAPERS,
           IF platform /= NULL /\ platform /= "needs_classification"
           THEN platform ELSE "llm")

\* scrape.py:140-150
ScrapeCliDispatch(platform, detected) ==
    Lookup(scrape_PLATFORM_SCRAPERS,
           IF platform /= NULL THEN platform
           ELSE IF detected /= NULL THEN detected ELSE "llm")

\* push_availability.py:216-236, run without the --platform override.
ValidateCliDispatch(platform, detected) ==
    LET raw_platform == IF platform \in {NULL, "needs_classification"}
                        THEN detected ELSE platform
    IN  Lookup(push_availability_PLATFORM_SCRAPERS,
               IF raw_platform /= NULL THEN raw_platform ELSE "llm")

ResolveStrategy(path, platform, detected) ==
    CASE path = "batch"        -> BatchDispatch(platform)
      [] path = "admin"        -> AdminDispatch(platform)
      [] path = "scrape_cli"   -> ScrapeCliDispatch(platform, detected)
      [] path = "validate_cli" -> ValidateCliDispatch(platform, detected)

DispatchInputs ==
    [path : DispatchPaths, platform : StoredPlatforms, detected : DetectedPlatforms]

InitDispatch ==
    /\ Quiescent
    /\ arg \in DispatchInputs
    /\ ret = <<>>

\* One path is run for one building.
RunPath ==
    /\ arg \in DispatchInputs
    /\ ret = <<>>
    /\ ret' = << ResolveStrategy(arg.path, arg.platform, arg.detected) >>
    /\ UNCHANGED <<dbvars, clock, attemptvars, batchvars, job, arg>>

NextDispatch == RunPath

SpecDispatch == InitDispatch /\ [][NextDispatch]_vars

\* C27: whichever path runs a strategy for a building, the module it runs
\* is the one the central registry gives for the tag.
C27_RegistryIsSingleSource ==
    (ret /= <<>> /\ ret[1].module /= NULL) =>
        /\ ret[1].tag \in DOMAIN registry_PLATFORM_SCRAPERS
        /\ ret[1].module = registry_PLATFORM_SCRAPERS[ret[1].tag]
-----------------------------------------------------------------------------
\* The health fields of a building agree with each other.
HealthConsistent(bld) ==
    /\ bld.last_scrape_status \in {"never", "success", "failed", "needs_attention"}
    /\ bld.last_scrape_status = "needs_attention" =>
           bld.consecutive_zero_count >= CONSECUTIVE_ZERO_THRESHOLD
    /\ bld.last_scrape_status = "success" =>
           bld.consecutive_zero_count < CONSECUTIVE_ZERO_THRESHOLD

\* C28: in every state reached from a fresh building (status never, count
\* 0) by scrape transitions, needs_attention implies a count of at least 5,
\* success implies a count below 5, the status is one of the four values,
\* and a building that has a committed transition (a run row, or a status
\* other than never) does not have, and never gets back, the status never.
C28_HealthInvariant ==
    /\ [](\A b \in DOMAIN buildings :
            /\ HealthConsistent(buildings[b])
            /\ RunsOf(b) /= <<>> => buildings[b].last_scrape_status /= "never")
    /\ [][\A b \in DOMAIN buildings :
            buildings[b].last_scrape_status /= "never" =>
                /\ b \in DOMAIN buildings'
                /\ buildings'[b].last_scrape_status /= "never"]_vars

\* The fresh building reached needs_attention through five zero-unit
\* successes, and a later failed attempt left the count where it was.
C28_Witness ==
    /\ buildings[1].last_scrape_status = "failed"
    /\ buildings[1].consecutive_zero_count = CONSECUTIVE_ZERO_THRESHOLD
    /\ Len(RunsOf(1)) = CONSECUTIVE_ZERO_THRESHOLD + 1
-----------------------------------------------------------------------------
\* Two records of the list validate and carry the same unit_number.
Duplicated(raws) ==
    \E i, j \in 1..Len(raws) :
        /\ i /= j
        /\ Validates(raws[i]) /\ Validates(raws[j])
        /\ raws[i].unit_number = raws[j].unit_number

\* scrape_one_building holds a strategy's list with such a pair.
DuplicateAttempt ==
    /\ pc \in {"delete", "stage", "commit", "except", "fail_stage",
               "fail_commit", "sleep"}
    /\ Duplicated(raw_units)

\* The failure transition of building b, and nothing else, is committed.
FailedTransitionOnly(b) ==
    /\ units' = units
    /\ buildings' =
           [buildings EXCEPT ![b] = [@ EXCEPT !.last_scrape_status = "failed",
                                              !.last_scraped_at = clock]]
    /\ buildings'[b].consecutive_zero_count = buildings[b].consecutive_zero_count
    /\ scrape_runs' = scrape_runs \cup {ScrapeRun(b, clock, "failed", 0)}
    /\ Cardinality(scrape_runs') = Cardinality(scrape_runs) + 1

-----------------------------------------------------------------------------
(* SpecAdmin: the admin re-scrape jobs of api/routers/admin.py.  The       *)
(* handlers and the job coroutine run on one event loop, so each stretch   *)
(* of code between two awaits is one step.  In this specification job      *)
(* holds the dict _jobs (job ids are 1, 2, ... in order of creation), arg  *)
(* holds the dict _building_jobs and ret the responses sent so far and the *)
(* position of each job's task.                                            *)

\* Requests served in one run.
MaxRequests == 3

\* Buildings 1 and 2 are rows of the store; no building has id 3.
AdminBuildingIds == {1, 2, 3}

Job(status, building_id) == [status |-> status, building_id |-> building_id]

JobResponse(building_id, code, job_id) ==
    [building_id |-> building_id, code |-> code, job_id |-> job_id]

\* What scrape_one_building did in its thread (runner.py:38-125):
\* returned a result with status success or failed, or raised.
ScrapeOutcomes == {"success", "failed", "raised"}

\* _building_jobs[building_id] = job_id (admin.py:113)
SetActive(bj, b, j) == [x \in DOMAIN bj \cup {b} |-> IF x = b THEN j ELSE bj[x]]

\* A finally block that skips the pop when the scrape raised.
PopUnlessRaised(bj, b, raised) ==
    IF raised THEN bj ELSE [x \in DOMAIN bj \ {b} |-> bj[x]]

\* finally: _building_jobs.pop(building_id, None) (admin.py:182-183)
PopActive(bj, b, raised) == [x \in DOMAIN bj \ {b} |-> bj[x]]

InitAdmin ==
    /\ units = {}
    /\ buildings = (1 :> Building("rentcafe", "never", 0, 0)
                    @@ 2 :> Building("needs_classification", "never", 0, 0))
    /\ scrape_runs = {}
    /\ clock = 0
    /\ now = 0
    /\ pc = "off"
    /\ cur = 0
    /\ raw_units = <<>>
    /\ result = NoResult
    /\ sess = <<>>
    /\ last_good = <<>>
    /\ bpc = "off"
    /\ sync_result = NULL
    /\ sheet = <<>>
    /\ env = <<>>
    /\ building_specs = <<>>
    /\ tstate = <<>>
    /\ tres = <<>>
    /\ semaphores = <<>>
    /\ results = EmptyBag
    /\ pushed = <<>>
    /\ job = <<>>
    /\ arg = <<>>
    /\ ret = [responses |-> <<>>, task |-> <<>>]

AdminFrame == UNCHANGED <<dbvars, clock, attemptvars, batchvars>>

\* POST /admin/rescrape/{building_id} (admin.py:91-127).
trigger_rescrape(building_id) ==
    /\ Len(ret.responses) < MaxRequests
    /\ IF building_id \in DOMAIN arg
       THEN /\ ret' = [ret EXCEPT !.responses =
                          Append(@, JobResponse(building_id, 409, 0))]
            /\ UNCHANGED <<job, arg>>
       ELSE IF building_id \notin DOMAIN buildings
       THEN /\ ret' = [ret EXCEPT !.responses =
                          Append(@, JobResponse(building_id, 404, 0))]
            /\ UNCHANGED <<job, arg>>
       ELSE LET job_id == Len(job) + 1 IN
            /\ job' = Append(job, Job("queued", building_id))
            /\ arg' = SetActive(arg, building_id, job_id)
            /\ ret' = [responses |-> Append(ret.responses,
                                            JobResponse(building_id, 202, job_id)),
                       task |-> Append(ret.task, "created")]
    /\ AdminFrame

\* _run_scrape_job up to its await (admin.py:152-157): the task created by
\* asyncio.create_task gets its first turn on the loop.
RunScrapeJobStart(job_id) ==
    /\ job_id \in DOMAIN job
    /\ ret.task[job_id] = "created"
    /\ job' = [job EXCEPT ![job_id].status = "running"]
    /\ ret' = [ret EXCEPT !.task[job_id] = "awaiting"]
    /\ UNCHANGED arg
    /\ AdminFrame

\* _run_scrape_job after its await (admin.py:164-183): the thread is done,
\* the job's status is updated and the finally block runs.
RunScrapeJobEnd(job_id, outcome) ==
    /\ job_id \in DOMAIN job
    /\ ret.task[job_id] = "awaiting"
    /\ job' = [job EXCEPT ![job_id].status =
                  IF outcome = "raised" THEN "failed" ELSE outcome]
    /\ arg' = PopActive(arg, job[job_id].building_id, outcome = "raised")
    /\ ret' = [ret EXCEPT !.task[job_id] = "done"]
    /\ AdminFrame

NextAdmin ==
    \/ \E b \in AdminBuildingIds : trigger_rescrape(b)
    \/ \E j \in 1..MaxRequests : RunScrapeJobStart(j)
    \/ \E j \in 1..MaxRequests : \E o \in ScrapeOutcomes : RunScrapeJobEnd(j, o)

SpecAdmin == InitAdmin /\ [][NextAdmin]_vars

ActiveStatus(s) == s \in {"queued", "running"}

ActiveJobsOf(b) ==
    { j \in DOMAIN job : job[j].building_id = b /\ ActiveStatus(job[j].status) }

StatusRank(s) ==
    CASE s = "queued" -> 0 [] s = "running" -> 1 [] OTHER -> 2

\* A request was served in this step; it was for building b.
Served(b) ==
    /\ Len(ret'.responses) = Len(ret.responses) + 1
    /\ ret'.responses[Len(ret'.responses)].building_id = b

LastCode == ret'.responses[Len(ret'.responses)].code

\* C30: at most one admin job per building is active, and _building_jobs
\* names exactly the active jobs; a trigger for a building with an active
\* job is answered 409 and creates no job and starts no task; a trigger for
\* an existing building without one is accepted; a job that ends leaves
\* _building_jobs whether the scrape succeeded, failed or raised; a job's
\* status only moves from queued to running to a terminal status.
C30_OneActiveJob ==
    /\ [](\A b \in AdminBuildingIds :
            /\ Cardinality(ActiveJobsOf(b)) <= 1
            /\ b \in DOMAIN arg <=> ActiveJobsOf(b) /= {}
            /\ b \in DOMAIN arg => arg[b] \in ActiveJobsOf(b))
    /\ [][/\ \A b \in AdminBuildingIds :
               /\ Served(b) /\ b \in DOMAIN arg =>
                      LastCode = 409 /\ UNCHANGED <<job, arg>> /\ ret'.task = ret.task
               /\ Served(b) /\ b \notin DOMAIN arg /\ b \in DOMAIN buildings =>
                      /\ LastCode = 202
                      /\ job' = Append(job, Job("queued", b))
                      /\ arg'[b] = Len(job')
          /\ \A j \in DOMAIN job :
               /\ j \in DOMAIN job'
               /\ job'[j].building_id = job[j].building_id
               /\ StatusRank(job'[j].status) >= StatusRank(job[j].status)
               /\ ~ActiveStatus(job[j].status) => job'[j] = job[j]
               /\ ActiveStatus(job[j].status) /\ ~ActiveStatus(job'[j].status) =>
                      job[j].building_id \notin DOMAIN arg']_vars

\* Building 1 was triggered, triggered again while its job was active (409),
\* its scrape raised, and a third trigger was accepted as job 2.
C30_Witness ==
    /\ Len(ret.responses) = 3
    /\ ret.responses[1] = JobResponse(1, 202, 1)
    /\ ret.responses[2] = JobResponse(1, 409, 0)
    /\ ret.responses[3] = JobResponse(1, 202, 2)
    /\ job[1].status = "failed"
    /\ ActiveJobsOf(1) = {2}

====
